---- MODULE Spec2Model ----
(***************************************************************************)
(* Script execution engine and behaviour manager of the Eyes application.  *)
(*                                                                         *)
(* Time is counted in ticks; every delay of a script (timeline time,       *)
(* interaction startTime, duration) is a whole number of ticks.  Timers    *)
(* are the setTimeout handles of the engine: a timer fires when its        *)
(* deadline is reached, timers that share a deadline fire in any order     *)
(* except that two timers created with the same delay fire in creation     *)
(* order.  An `await` on a cached script resumes as a microtask, before    *)
(* any other timer or user operation; an `await` on a fetch resumes at any *)
(* later moment.  Where the director runs, a tick is 1000 ms: the          *)
(* evaluation intervals, the cooldowns, the jitter and the 3000 ms         *)
(* debounce are whole ticks.  A draw of Math.random() is a number of       *)
(* tenths, and so is every probability; a script weight is a number of     *)
(* tenths too.                                                             *)
(***************************************************************************)
EXTENDS Integers, Sequences, FiniteSets, TLC

\* ------------------------------------------------------------------ bounds
MaxTime == 2        \* Spec, SpecCycle: the clock stops advancing here
MaxOps == 2         \* Spec: user operations issued in one behaviour
MaxInst == 4        \* Spec, SpecCycle: ScriptInstance objects constructed
CycleOps == 3       \* SpecCycle: user operations issued in one behaviour
ChainTime == 3      \* SpecOnce: the clock stops advancing here
ChainInst == 6      \* SpecOnce: ScriptInstance objects constructed
DirTime == 6        \* SpecDirector: ticks the clock advances past Epoch
DirOps == 1         \* SpecDirector: user operations issued in one behaviour
DirInst == 3        \* SpecDirector: ScriptInstance objects constructed
ModeTime == 4       \* SpecModes: ticks the clock advances past Epoch
ModeOps == 2        \* SpecModes: user operations issued in one behaviour
LiveTime == 8       \* SpecLive: ticks the clock advances past Epoch
LiveOps == 1        \* SpecLive: user operations issued in one behaviour
KeysTime == 2       \* SpecKeys: ticks the clock advances past Epoch
KeysOps == 3        \* SpecKeys: user operations issued in one behaviour
GlitchTime == 3     \* SpecGlitch: the clock stops advancing here
GlitchOps == 2      \* SpecGlitch: user operations issued in one behaviour
StoreLoads == 3     \* SpecStore: loadScript calls made in one behaviour
StorePubs == 2      \* SpecStore: changes of the scripts/ directory

VARIABLES
    eyeSets,          \* eyeSets[i]: visible, behavior, currentScript, ...
    scriptInstances,  \* scriptExecutionState.scriptInstances: set -> instance
    loadedScripts,    \* scriptExecutionState.loadedScripts: keys, insertion order
    defaultScripts,   \* scriptExecutionState.defaultScripts: set -> script id
    instances,        \* every ScriptInstance ever constructed (heap)
    timers,           \* every setTimeout handle ever issued by the engine
    calls,            \* executeScript invocations suspended in `await loadScript`
    now,              \* Date.now(), in ticks
    ops,              \* history: the number of user operations issued
    cycles,           \* history: cycleBehavior calls issued, per eye-set
    limits,           \* the bounds of the specification in force
    returns,          \* history: executeScript calls that returned null
    saveRequested,    \* debouncedSaveState() has been called
    directorState,    \* directorState of state.js
    directorLog,      \* history: evaluations run, executeScript calls made by them
    probe,            \* the last application of a selection function, with its inputs
    store,            \* the Script Store: scripts/ files, cache entries, loadScript calls
    testMode,         \* the TestMode singleton of js/ui/test-mode.js
    debugPanel,       \* the DebugPanel singleton of js/ui/debug-panel.js
    toast             \* the ToastManager singleton of js/ui/toast.js

vars == <<eyeSets, scriptInstances, loadedScripts, defaultScripts, instances,
          timers, calls, now, ops, cycles, limits, returns, saveRequested,
          directorState, directorLog, probe, store, testMode, debugPanel,
          toast>>

\* The eye-sets that exist are those the scripts below name; index 3 is an
\* index at which eyeSets holds nothing.
Sets == 0 .. 2
SetIdx == 0 .. 3
NoScript == ""

\* ------------------------------------------------------------- BehaviorType
AUTONOMOUS == "autonomous"
TRACKING == "tracking"
SCRIPTED == "scripted"
behaviors == <<AUTONOMOUS, TRACKING, SCRIPTED>>

\* ------------------------------------------------------ the scripts/ directory
\* pdur is params.duration of the entry (0 when the entry declares none);
\* timeIsNumber is typeof time === 'number' and timelineIsArray is
\* Array.isArray(timeline), a timeline that is no array being written <<>>;
\* an interaction's scriptId is NoScript when the entry omits it.
\* surprise.json is kept to its first and its last setScale entry, with its
\* explicit duration beyond both; sync_blink.json is kept whole, its 0.3 s
\* step being one tick.
surprise ==
    [scriptId |-> "surprise", name |-> "Surprise Reaction",
     hasDuration |-> TRUE, duration |-> 2, timelineIsArray |-> TRUE,
     interactions |-> <<>>,
     timeline |-> << [time |-> 0, action |-> "setScale", pdur |-> 0, timeIsNumber |-> TRUE],
                     [time |-> 1, action |-> "setScale", pdur |-> 0, timeIsNumber |-> TRUE] >>]

sync_blink ==
    [scriptId |-> "sync_blink", name |-> "Synchronized Multi-Eye Blink",
     hasDuration |-> FALSE, duration |-> 0, timelineIsArray |-> TRUE,
     interactions |-> << [targetSet |-> 1, startTime |-> 1, scriptId |-> NoScript],
                         [targetSet |-> 2, startTime |-> 2, scriptId |-> NoScript] >>,
     timeline |-> << [time |-> 0, action |-> "blink", pdur |-> 0, timeIsNumber |-> TRUE],
                     [time |-> 1, action |-> "blink", pdur |-> 0, timeIsNumber |-> TRUE],
                     [time |-> 2, action |-> "blink", pdur |-> 0, timeIsNumber |-> TRUE] >>]

\* A script whose second entry names an action the registry does not hold.
glitch ==
    [scriptId |-> "glitch", name |-> "Glitch",
     hasDuration |-> FALSE, duration |-> 0, timelineIsArray |-> TRUE,
     interactions |-> <<>>,
     timeline |-> << [time |-> 0, action |-> "blink", pdur |-> 0,
                      timeIsNumber |-> TRUE],
                     [time |-> 1, action |-> "teleport", pdur |-> 0,
                      timeIsNumber |-> TRUE],
                     [time |-> 2, action |-> "blink", pdur |-> 0,
                      timeIsNumber |-> TRUE] >>]

ScriptFiles == {"surprise", "sync_blink", "glitch"}
ScriptIds == {"surprise", "sync_blink", "ghost"}     \* "ghost" has no file

ScriptFile(id) ==
    IF id = "surprise" THEN surprise
    ELSE IF id = "glitch" THEN glitch ELSE sync_blink

actionRegistry ==
    {"blink", "moveIris", "setScale", "setGap", "setPosition", "playSound",
     "crossEyes", "uncrossEyes", "rollEyes", "widen", "squint", "lookAt",
     "dart", "shake", "startDripping", "stopDripping", "setColor",
     "fadeColor"}

\* ------------------------------------------------------------- Script Store
validateScript(script) ==
    /\ script.scriptId # NoScript
    /\ script.name # ""
    /\ script.timelineIsArray
    /\ \A k \in 1 .. Len(script.timeline) :
          /\ script.timeline[k].timeIsNumber
          /\ script.timeline[k].action # ""

\* An insertion that puts an entry before the entries of its own time.
RECURSIVE InsertSortedUnstable(_, _)
InsertSortedUnstable(sorted, e) ==
    IF sorted = <<>> THEN <<e>>
    ELSE IF sorted[Len(sorted)].time < e.time THEN Append(sorted, e)
    ELSE Append(InsertSortedUnstable(SubSeq(sorted, 1, Len(sorted) - 1), e),
                sorted[Len(sorted)])

\* timeline.sort((a, b) => a.time - b.time), a stable sort, as insertion of
\* the entries in their order.
RECURSIVE InsertSorted(_, _)
InsertSorted(sorted, e) ==
    IF sorted = <<>> THEN <<e>>
    ELSE IF sorted[Len(sorted)].time <= e.time THEN Append(sorted, e)
    ELSE Append(InsertSorted(SubSeq(sorted, 1, Len(sorted) - 1), e),
                sorted[Len(sorted)])

RECURSIVE SortTimeline(_)
SortTimeline(tl) ==
    IF tl = <<>> THEN <<>>
    ELSE InsertSorted(SortTimeline(SubSeq(tl, 1, Len(tl) - 1)), tl[Len(tl)])

\* The duration taken from the last entry of the file, not of the sorted
\* timeline.
DerivedDurationUnsorted(script, tl) ==
    IF script.hasDuration /\ script.duration # 0 THEN script.duration
    ELSE script.timeline[Len(tl)].time + script.timeline[Len(tl)].pdur

\* `if (!scriptObject.duration)`: a duration of 0 counts as none.
DerivedDuration(script, tl) ==
    IF script.hasDuration /\ script.duration # 0 THEN script.duration
    ELSE tl[Len(tl)].time + tl[Len(tl)].pdur

\* The object loadScript makes of a parsed file that passed validation.
PreparedScript(raw) ==
    LET tl == SortTimeline(raw.timeline)
    IN [raw EXCEPT !.timeline = tl, !.duration = DerivedDuration(raw, tl)]

\* TRUE when the try block of loadScript runs to its end on the parsed
\* file: validation passes, and lastAction is not read off an empty
\* timeline (a TypeError, caught like the rest).
Prepares(raw) ==
    /\ validateScript(raw)
    /\ (raw.timeline # <<>> \/ (raw.hasDuration /\ raw.duration # 0))

\* The script object loadScript caches and returns for a file that passed
\* validation.
ScriptObject(id) == PreparedScript(ScriptFile(id))

\* TRUE when loadScript(id) yields a definition after its fetch.
Loadable(id) == id \in ScriptFiles /\ Prepares(ScriptFile(id))

InCache(ld, id) == \E k \in 1 .. Len(ld) : ld[k] = id

CacheSet(ld, id) == IF InCache(ld, id) THEN ld ELSE Append(ld, id)

\* The contents a file of scripts/ may hold, as parsed by response.json().
Entry(time, action, pdur) ==
    [time |-> time, action |-> action, pdur |-> pdur, timeIsNumber |-> TRUE]

Definition(scriptId, name, hasDuration, duration, timeline) ==
    [scriptId |-> scriptId, name |-> name, hasDuration |-> hasDuration,
     duration |-> duration, timelineIsArray |-> TRUE,
     interactions |-> <<>>, timeline |-> timeline]

Definitions ==
    << \* 1: out of order, two entries at one time, no duration
       Definition("a", "A", FALSE, 0,
                  << Entry(2, "blink", 1), Entry(1, "moveIris", 0),
                     Entry(1, "setScale", 0), Entry(0, "widen", 0) >>),
       \* 2: a declared duration
       Definition("a", "A", TRUE, 5,
                  << Entry(1, "blink", 0), Entry(0, "squint", 2) >>),
       \* 3: a declared duration of 0
       Definition("a", "A", TRUE, 0, << Entry(1, "blink", 2) >>),
       \* 4: an empty timeline with a declared duration
       Definition("a", "A", TRUE, 3, <<>>),
       \* 5: an empty timeline and no duration
       Definition("a", "A", FALSE, 0, <<>>),
       \* 6: an entry at a negative time
       Definition("a", "A", FALSE, 0,
                  << Entry(0, "blink", 0), Entry(-1, "widen", 0) >>),
       \* 7: no name
       Definition("a", "", FALSE, 0, << Entry(0, "blink", 0) >>),
       \* 8: no scriptId
       Definition(NoScript, "A", FALSE, 0, << Entry(0, "blink", 0) >>),
       \* 9: an entry without an action
       Definition("a", "A", FALSE, 0,
                  << Entry(0, "blink", 0), Entry(1, "", 0) >>),
       \* 10: an entry whose time is a string
       Definition("a", "A", FALSE, 0,
                  << [Entry(0, "blink", 0) EXCEPT !.timeIsNumber = FALSE] >>),
       \* 11: a timeline that is no array
       [Definition("a", "A", TRUE, 4, <<>>) EXCEPT !.timelineIsArray = FALSE]
    >>

\* scriptList of preloadAllScripts, cut to two identifiers.
scriptList == <<"surprise", "sync_blink">>
StoreIds == {scriptList[k] : k \in 1 .. Len(scriptList)}

\* What a file of scripts/ may come to hold, no file (the fetch answers 404)
\* being 0: anything for the first file, the second definition for another.
FileContents(id) ==
    IF id = scriptList[1] THEN 0 .. Len(Definitions) ELSE {0, 2}

\* files: what scripts/<id>.json holds now.  cache: loadedScripts as the
\* Map it is, an entry being the object made of file contents def by the
\* loadScript call number by (the identity of the object).  loads: every
\* loadScript call made, with the file it was answered with and what it
\* returned.
NoStore ==
    [files |-> [id \in StoreIds |-> 0], cache |-> <<>>, loads |-> <<>>,
     published |-> 0]

StoreHas(cache, id) == \E k \in 1 .. Len(cache) : cache[k].scriptId = id

StoreGet(cache, id) ==
    cache[CHOOSE k \in 1 .. Len(cache) : cache[k].scriptId = id]

\* Map.prototype.set: a key that exists keeps its place and takes the value.
StoreSet(cache, entry) ==
    IF StoreHas(cache, entry.scriptId)
    THEN [k \in 1 .. Len(cache) |->
             IF cache[k].scriptId = entry.scriptId THEN entry ELSE cache[k]]
    ELSE Append(cache, entry)

\* loadScript(id) up to its first await: the cached object is returned, or
\* the fetch is started.
loadScript(st, id) ==
    IF StoreHas(st.cache, id)
    THEN [st EXCEPT !.loads =
             Append(@, [scriptId |-> id, state |-> "returned",
                        fetched |-> FALSE, ok |-> TRUE,
                        def |-> StoreGet(st.cache, id).def,
                        by |-> StoreGet(st.cache, id).by])]
    ELSE [st EXCEPT !.loads =
             Append(@, [scriptId |-> id, state |-> "fetching",
                        fetched |-> TRUE, ok |-> FALSE, def |-> 0, by |-> 0])]

\* The rest of loadScript that caches what the fetch brought before it
\* validates it.
loadScriptCachesFirst(st, l) ==
    LET id == st.loads[l].scriptId
        d == st.files[id]
    IN IF d = 0
       THEN [st EXCEPT !.loads[l].state = "returned"]
       ELSE IF ~Prepares(Definitions[d])
       THEN [st EXCEPT !.loads[l].state = "returned",
                       !.cache = StoreSet(@, [scriptId |-> id, def |-> d,
                                              by |-> l])]
       ELSE [st EXCEPT !.cache = StoreSet(@, [scriptId |-> id, def |-> d,
                                              by |-> l]),
                       !.loads[l] = [@ EXCEPT !.state = "returned",
                                              !.ok = TRUE, !.def = d,
                                              !.by = l]]

\* The rest of loadScript, from the answer of the fetch: a response that is
\* not ok, a file that fails validation and a TypeError all end in the
\* catch, which returns null.
loadScriptSettled(st, l) ==
    LET id == st.loads[l].scriptId
        d == st.files[id]
    IN IF d = 0 \/ ~Prepares(Definitions[d])
       THEN [st EXCEPT !.loads[l].state = "returned", !.loads[l].def = d]
       ELSE [st EXCEPT !.cache = StoreSet(@, [scriptId |-> id, def |-> d,
                                              by |-> l]),
                       !.loads[l] = [@ EXCEPT !.state = "returned",
                                              !.ok = TRUE, !.def = d,
                                              !.by = l]]

\* scriptList.map(id => loadScript(id)): every call runs to its await.
RECURSIVE preloadFrom(_, _)
preloadFrom(st, k) ==
    IF k > Len(scriptList) THEN st
    ELSE preloadFrom(loadScript(st, scriptList[k]), k + 1)

preloadAllScripts(st) == preloadFrom(st, 1)

\* ------------------------------------------------------------ the world
\* The mutable program state as one record, so that a handler that calls
\* another handler is a composition of functions on it.
World ==
    [es |-> eyeSets, si |-> scriptInstances, ld |-> loadedScripts,
     ins |-> instances, tm |-> timers, cl |-> calls, sv |-> saveRequested,
     rt |-> returns, ds |-> directorState, lg |-> directorLog]

Commit(w) ==
    /\ eyeSets' = w.es
    /\ scriptInstances' = w.si
    /\ loadedScripts' = w.ld
    /\ instances' = w.ins
    /\ timers' = w.tm
    /\ calls' = w.cl
    /\ saveRequested' = w.sv
    /\ returns' = w.rt
    /\ directorState' = w.ds
    /\ directorLog' = w.lg

Exists(s) == s \in Sets

stopEyeSetAnimations(w, s) == [w EXCEPT !.es[s].idle = FALSE]
startEyeSetAnimations(w, s) == [w EXCEPT !.es[s].idle = TRUE]
stopEyeSetTracking(w, s) == [w EXCEPT !.es[s].trackingOn = FALSE]
startEyeSetTracking(w, s) == [w EXCEPT !.es[s].trackingOn = TRUE]

\* clearTimeout: only a pending handle changes state.
ClearTimers(tm, ids) ==
    [t \in 1 .. Len(tm) |->
        IF t \in ids /\ tm[t].state = "pending"
        THEN [tm[t] EXCEPT !.state = "cleared"] ELSE tm[t]]

\* ------------------------------------------------- Script Execution Engine
\* completeScript that cancels the timers of every script instance.
completeScriptClearsAll(w, s, by) ==
    IF ~Exists(s) \/ w.es[s].currentScript = 0 THEN w
    ELSE
        LET i == w.es[s].currentScript
        IN [w EXCEPT !.tm = ClearTimers(w.tm, 1 .. Len(w.tm)),
                     !.ins[i].isRunning = FALSE,
                     !.ins[i].scheduledActions = {},
                     !.ins[i].ended = TRUE,
                     !.ins[i].endedBy = by,
                     !.es[s].currentScript = 0,
                     !.si[s] = 0,
                     !.es[s].behavior = AUTONOMOUS,
                     !.es[s].lastBehaviorChange = now,
                     !.es[s].idle = TRUE]

\* completeScript that leaves the entry of scriptInstances in place.
completeScriptKeepsEntry(w, s, by) ==
    IF ~Exists(s) \/ w.es[s].currentScript = 0 THEN w
    ELSE
        LET i == w.es[s].currentScript
        IN [w EXCEPT !.tm = ClearTimers(w.tm, w.ins[i].scheduledActions),
                     !.ins[i].isRunning = FALSE,
                     !.ins[i].scheduledActions = {},
                     !.ins[i].ended = TRUE,
                     !.ins[i].endedBy = by,
                     !.es[s].currentScript = 0,
                     !.es[s].behavior = AUTONOMOUS,
                     !.es[s].lastBehaviorChange = now,
                     !.es[s].idle = TRUE]

\* completeScript without its clearTimeout loop.
completeScriptKeepsTimers(w, s, by) ==
    IF ~Exists(s) \/ w.es[s].currentScript = 0 THEN w
    ELSE
        LET i == w.es[s].currentScript
        IN [w EXCEPT !.ins[i].isRunning = FALSE,
                     !.ins[i].scheduledActions = {},
                     !.ins[i].ended = TRUE,
                     !.ins[i].endedBy = by,
                     !.es[s].currentScript = 0,
                     !.si[s] = 0,
                     !.es[s].behavior = AUTONOMOUS,
                     !.es[s].lastBehaviorChange = now,
                     !.es[s].idle = TRUE]

\* `by` is history only: the timer whose callback called completeScript, or
\* 0 for a manual stop.  So are the fields ended and endedBy of an instance,
\* and invoked, the executeAction calls made by the instance's timers.
completeScript(w, s, by) ==
    IF ~Exists(s) \/ w.es[s].currentScript = 0 THEN w
    ELSE
        LET i == w.es[s].currentScript
            w1 == [w EXCEPT
                     !.tm = ClearTimers(w.tm, w.ins[i].scheduledActions),
                     !.ins[i].isRunning = FALSE,
                     !.ins[i].scheduledActions = {},
                     !.ins[i].ended = TRUE,
                     !.ins[i].endedBy = by,
                     !.es[s].currentScript = 0,
                     !.si[s] = 0,
                     !.es[s].behavior = AUTONOMOUS,
                     !.es[s].lastBehaviorChange = now]
        IN startEyeSetAnimations(w1, s)

stopScript(w, s) ==
    IF ~Exists(s) \/ w.es[s].currentScript = 0 THEN w
    ELSE completeScript(w, s, 0)

\* executeScript without the test of eyeSet.visible.
executeScriptUnchecked(w, s, id) ==
    IF ~Exists(s) THEN [w EXCEPT !.rt[s].refused = @ + 1]
    ELSE [w EXCEPT !.cl = Append(@, [setIndex |-> s, scriptId |-> id,
                                     hit |-> InCache(w.ld, id)])]

\* executeScript up to its `await loadScript(scriptId)`: the visibility
\* check, and loadScript's cache lookup.  rt counts the calls that return
\* null here (refused) and after the load (failed), per index given.
executeScript(w, s, id) ==
    IF ~Exists(s) \/ ~w.es[s].visible THEN [w EXCEPT !.rt[s].refused = @ + 1]
    ELSE [w EXCEPT !.cl = Append(@, [setIndex |-> s, scriptId |-> id,
                                     hit |-> InCache(w.ld, id)])]

\* Timeline timers issued with no delay.
ActionTimersAtOnce(obj, s, i) ==
    [k \in 1 .. Len(obj.timeline) |->
        [kind |-> "action", set |-> s, inst |-> i, idx |-> k,
         script |-> obj.scriptId, delay |-> 0, deadline |-> now,
         state |-> "pending", started |-> FALSE]]

ActionTimers(obj, s, i) ==
    [k \in 1 .. Len(obj.timeline) |->
        [kind |-> "action", set |-> s, inst |-> i, idx |-> k,
         script |-> obj.scriptId, delay |-> obj.timeline[k].time,
         deadline |-> now + obj.timeline[k].time, state |-> "pending",
         started |-> FALSE]]

\* Interaction timers issued with no delay.
InteractionTimersAtOnce(obj, id, s, i) ==
    [k \in 1 .. Len(obj.interactions) |->
        [kind |-> "interaction", set |-> s, inst |-> i, idx |-> k,
         script |-> id, delay |-> 0, deadline |-> now,
         state |-> "pending", started |-> FALSE]]

InteractionTimers(obj, id, s, i) ==
    [k \in 1 .. Len(obj.interactions) |->
        [kind |-> "interaction", set |-> s, inst |-> i, idx |-> k,
         script |-> id, delay |-> obj.interactions[k].startTime,
         deadline |-> now + obj.interactions[k].startTime,
         state |-> "pending", started |-> FALSE]]

CompletionTimer(obj, s, i) ==
    [kind |-> "completion", set |-> s, inst |-> i, idx |-> 0,
     script |-> obj.scriptId, delay |-> obj.duration,
     deadline |-> now + obj.duration, state |-> "pending", started |-> FALSE]

\* executeScript after the await, with the script object it was given.
executeScriptResume(w, s, id, obj) ==
    LET i == Len(w.ins) + 1
        new == ActionTimers(obj, s, i) \o InteractionTimers(obj, id, s, i)
               \o <<CompletionTimer(obj, s, i)>>
        handles == (Len(w.tm) + 1) .. (Len(w.tm) + Len(new))
        instance == [scriptId |-> obj.scriptId, setIndex |-> s,
                     startTime |-> now, isRunning |-> TRUE,
                     scheduledActions |-> handles,
                     interactionInstances |-> 0,
                     invoked |-> <<>>, ended |-> FALSE, endedBy |-> 0]
        w1 == stopEyeSetAnimations(w, s)
    IN [w1 EXCEPT !.es[s].behavior = SCRIPTED,
                  !.es[s].lastBehaviorChange = now,
                  !.es[s].currentScript = i,
                  !.si[s] = i,
                  !.ins = Append(@, instance),
                  !.tm = @ \o new]

\* executeAction that gives the script up at an action it does not know.
executeActionAborts(w, t) ==
    LET tm == w.tm[t]
        s == tm.set
        action == ScriptObject(tm.script).timeline[tm.idx].action
        handled == Exists(s) /\ w.es[s].visible /\ action \in actionRegistry
        w1 == [w EXCEPT !.ins[tm.inst].invoked =
                    Append(@, [idx |-> tm.idx, action |-> action, at |-> now,
                               handled |-> handled])]
    IN IF action \in actionRegistry THEN w1 ELSE completeScript(w1, s, t)

\* executeAction without the test of eyeSet.visible.
executeActionUnseen(w, t) ==
    LET tm == w.tm[t]
        s == tm.set
        action == ScriptObject(tm.script).timeline[tm.idx].action
        handled == Exists(s) /\ action \in actionRegistry
    IN [w EXCEPT !.ins[tm.inst].invoked =
                    Append(@, [idx |-> tm.idx, action |-> action, at |-> now,
                               handled |-> handled])]

\* The callback of a timeline timer.  handled records whether the handler of
\* the registry was called; the callback changes nothing else of the state
\* modelled.
executeAction(w, t) ==
    LET tm == w.tm[t]
        s == tm.set
        action == ScriptObject(tm.script).timeline[tm.idx].action
        handled == Exists(s) /\ w.es[s].visible /\ action \in actionRegistry
    IN [w EXCEPT !.ins[tm.inst].invoked =
                    Append(@, [idx |-> tm.idx, action |-> action, at |-> now,
                               handled |-> handled])]

\* ---------------------------------------------------------- Behavior Manager
\* setEyeBehavior that does not stop the script that is running.
setEyeBehaviorKeepsScript(w, s, behavior) ==
    IF ~Exists(s) THEN w
    ELSE
        LET w1 == IF w.es[s].behavior = TRACKING
                  THEN stopEyeSetTracking(w, s)
                  ELSE stopEyeSetAnimations(w, s)
            w2 == [w1 EXCEPT !.es[s].behavior = behavior,
                             !.es[s].lastBehaviorChange = now]
            w3 == IF behavior = AUTONOMOUS THEN startEyeSetAnimations(w2, s)
                  ELSE IF behavior = TRACKING THEN startEyeSetTracking(w2, s)
                  ELSE w2
        IN [w3 EXCEPT !.sv = TRUE]

setEyeBehavior(w, s, behavior) ==
    IF ~Exists(s) THEN w
    ELSE
        LET w1 == IF w.es[s].behavior = SCRIPTED /\ w.es[s].currentScript # 0
                  THEN stopScript(w, s)
                  ELSE IF w.es[s].behavior = TRACKING
                  THEN stopEyeSetTracking(w, s)
                  ELSE stopEyeSetAnimations(w, s)
            w2 == [w1 EXCEPT !.es[s].behavior = behavior,
                             !.es[s].lastBehaviorChange = now]
            w3 == IF behavior = AUTONOMOUS THEN startEyeSetAnimations(w2, s)
                  ELSE IF behavior = TRACKING THEN startEyeSetTracking(w2, s)
                  ELSE w2
        IN [w3 EXCEPT !.sv = TRUE]

IndexOf(seq, x) ==
    IF \E k \in 1 .. Len(seq) : seq[k] = x
    THEN (CHOOSE k \in 1 .. Len(seq) :
            seq[k] = x /\ \A j \in 1 .. (k - 1) : seq[j] # x) - 1
    ELSE -1

\* cycleBehavior as a plain rotation over the three behaviours.
cycleBehaviorRotates(w, s) ==
    IF ~Exists(s) THEN w
    ELSE
        LET currentIndex == IndexOf(behaviors, w.es[s].behavior)
            nextIndex == (currentIndex + 1) % Len(behaviors)
        IN setEyeBehavior(w, s, behaviors[nextIndex + 1])

\* cycleBehavior entering scripted behaviour with no script to run.
cycleBehaviorEntersEmpty(w, s) ==
    IF ~Exists(s) THEN w
    ELSE
        LET currentIndex == IndexOf(behaviors, w.es[s].behavior)
            nextIndex == (currentIndex + 1) % Len(behaviors)
            nextBehavior == behaviors[nextIndex + 1]
        IN IF nextBehavior = SCRIPTED /\ defaultScripts[s] # NoScript
           THEN executeScript(w, s, defaultScripts[s])
           ELSE setEyeBehavior(w, s, nextBehavior)

cycleBehavior(w, s) ==
    IF ~Exists(s) THEN w
    ELSE
        LET currentIndex == IndexOf(behaviors, w.es[s].behavior)
            nextIndex == (currentIndex + 1) % Len(behaviors)
            nextBehavior == behaviors[nextIndex + 1]
        IN IF nextBehavior = SCRIPTED
           THEN IF defaultScripts[s] # NoScript
                THEN executeScript(w, s, defaultScripts[s])
                ELSE setEyeBehavior(w, s, AUTONOMOUS)
           ELSE setEyeBehavior(w, s, nextBehavior)

\* cycleScript that never looks at the script that is running.
cycleScriptFromFirst(w, s) ==
    IF ~Exists(s) \/ Len(w.ld) = 0 THEN w
    ELSE executeScript(w, s, w.ld[1])

cycleScript(w, s) ==
    IF ~Exists(s) \/ Len(w.ld) = 0 THEN w
    ELSE
        LET currentIndex ==
                IF w.es[s].currentScript # 0
                THEN IndexOf(w.ld, w.ins[w.es[s].currentScript].scriptId)
                ELSE -1
            nextIndex == (currentIndex + 1) % Len(w.ld)
        IN executeScript(w, s, w.ld[nextIndex + 1])

\* ------------------------------------------------------------------ Director
Debounce == 3       \* the 3000 ms of evaluateDirector
Epoch == 10         \* Date.now() when the page has loaded
Rand == 0 .. 9      \* a draw of Math.random(), in tenths
Jitter == {-1, 0, 1}

Table(a, t, sc) ==
    << [key |-> AUTONOMOUS, p |-> a], [key |-> TRACKING, p |-> t],
       [key |-> SCRIPTED, p |-> sc] >>

directorConfig ==
    [defaultMode |-> "active",
     modes |->
        [passive |-> [evaluationInterval |-> 12, scriptCooldown |-> 10,
                      triggerProbabilities |-> Table(8, 1, 1)],
         active |-> [evaluationInterval |-> 8, scriptCooldown |-> 5,
                     triggerProbabilities |-> Table(5, 2, 3)],
         chaotic |-> [evaluationInterval |-> 4, scriptCooldown |-> 2,
                      triggerProbabilities |-> Table(2, 3, 5)]],
     scriptWeights |->
        [surprise |-> 10, cross_eyes |-> 8, roll_eyes |-> 9, sleepy |-> 6,
         angry |-> 7, curious |-> 9, scared |-> 7, confused |-> 8,
         shifty |-> 15, sync_blink |-> 12, wave |-> 10, conversation |-> 15,
         dance |-> 12],
     conditions |->
        [multipleEyesVisible |->
            [minEyes |-> 2,
             scriptPreferences |-> <<"conversation", "sync_blink", "wave",
                                     "dance">>],
         singleEyeVisible |->
            [scriptPreferences |-> <<"surprise", "roll_eyes", "sleepy",
                                     "angry", "curious", "scared",
                                     "shifty">>]]]

InitialDirectorState ==
    [enabled |-> FALSE, mode |-> "active", lastScriptTime |-> 0,
     scriptCooldown |-> 5, evaluationInterval |-> 8,
     evaluationTimeoutId |-> 0,
     triggerProbabilities |-> Table(5, 2, 3),
     interactionChance |-> 3]

NoDirectorLog == [evals |-> 0, triggered |-> <<>>]
NoProbe == [fn |-> "none"]

\* The loop of weightedRandomChoice from entry k on, `cumulative` being the
\* sum so far; the fallback is the first key.
RECURSIVE WalkChoiceInclusive(_, _, _, _)
WalkChoiceInclusive(weights, rand, k, cumulative) ==
    IF k > Len(weights) THEN weights[1].key
    ELSE IF rand <= cumulative + weights[k].p THEN weights[k].key
    ELSE WalkChoiceInclusive(weights, rand, k + 1, cumulative + weights[k].p)

RECURSIVE WalkChoice(_, _, _, _)
WalkChoice(weights, rand, k, cumulative) ==
    IF k > Len(weights) THEN weights[1].key
    ELSE IF rand < cumulative + weights[k].p THEN weights[k].key
    ELSE WalkChoice(weights, rand, k + 1, cumulative + weights[k].p)

weightedRandomChoice(weights, rand) ==
    IF weights = <<>> THEN NoScript ELSE WalkChoice(weights, rand, 1, 0)

\* scriptWeights[id] || 1.0, in tenths.
WeightOf(scriptWeights, id) ==
    IF id \in DOMAIN scriptWeights /\ scriptWeights[id] # 0
    THEN scriptWeights[id] ELSE 10

RECURSIVE TotalWeight(_, _)
TotalWeight(scriptWeights, available) ==
    IF available = <<>> THEN 0
    ELSE WeightOf(scriptWeights, Head(available))
         + TotalWeight(scriptWeights, Tail(available))

\* The selection loop from entry k on; rand is in hundredths.
RECURSIVE WalkScripts(_, _, _, _)
WalkScripts(scriptWeights, available, k, rand) ==
    IF k > Len(available) THEN available[1]
    ELSE IF rand - 10 * WeightOf(scriptWeights, available[k]) <= 0
         THEN available[k]
         ELSE WalkScripts(scriptWeights, available, k + 1,
                          rand - 10 * WeightOf(scriptWeights, available[k]))

\* weightedRandomScriptChoice that does not look at the cache.
weightedRandomScriptChoiceUncached(scriptIds, ld, scriptWeights, u) ==
    LET available == SelectSeq(scriptIds,
                               LAMBDA id : id \in DOMAIN scriptWeights)
    IN IF available = <<>> THEN NoScript
       ELSE WalkScripts(scriptWeights, available, 1,
                        u * TotalWeight(scriptWeights, available))

\* weightedRandomScriptChoice(scriptIds) under the cache ld and the weight
\* table scriptWeights, with the draw u of Math.random().
weightedRandomScriptChoice(scriptIds, ld, scriptWeights, u) ==
    LET available == SelectSeq(scriptIds,
                               LAMBDA id : /\ InCache(ld, id)
                                           /\ id \in DOMAIN scriptWeights)
    IN IF available = <<>> THEN NoScript
       ELSE WalkScripts(scriptWeights, available, 1,
                        u * TotalWeight(scriptWeights, available))

EvaluationTimer(delay) ==
    [kind |-> "evaluation", set |-> 0, inst |-> 0, idx |-> 0,
     script |-> NoScript, delay |-> delay, deadline |-> now + delay,
     state |-> "pending", started |-> FALSE]

scheduleDirectorEvaluation(w, jitter) ==
    IF ~w.ds.enabled THEN w
    ELSE [w EXCEPT !.tm = Append(@, EvaluationTimer(
                                        w.ds.evaluationInterval + jitter)),
                   !.ds.evaluationTimeoutId = Len(w.tm) + 1]

\* startDirector without its test of enabled.
startDirectorAgain(w, mode, jitter) ==
    LET w1 == [w EXCEPT !.ds.enabled = TRUE, !.ds.mode = mode]
        w2 == IF mode \in DOMAIN directorConfig.modes
              THEN LET modeConfig == directorConfig.modes[mode]
                   IN [w1 EXCEPT
                         !.ds.evaluationInterval = modeConfig.evaluationInterval,
                         !.ds.scriptCooldown = modeConfig.scriptCooldown,
                         !.ds.triggerProbabilities =
                             modeConfig.triggerProbabilities]
              ELSE w1
    IN scheduleDirectorEvaluation(w2, jitter)

startDirector(w, mode, jitter) ==
    IF w.ds.enabled THEN w
    ELSE
        LET w1 == [w EXCEPT !.ds.enabled = TRUE, !.ds.mode = mode]
            w2 == IF mode \in DOMAIN directorConfig.modes
                  THEN LET modeConfig == directorConfig.modes[mode]
                       IN [w1 EXCEPT
                             !.ds.evaluationInterval =
                                 modeConfig.evaluationInterval,
                             !.ds.scriptCooldown = modeConfig.scriptCooldown,
                             !.ds.triggerProbabilities =
                                 modeConfig.triggerProbabilities]
                  ELSE w1
        IN scheduleDirectorEvaluation(w2, jitter)

\* stopDirector that only lowers the flag.
stopDirectorKeepsTimer(w) ==
    IF ~w.ds.enabled THEN w
    ELSE [w EXCEPT !.ds.enabled = FALSE]

stopDirector(w) ==
    IF ~w.ds.enabled THEN w
    ELSE
        LET w1 == [w EXCEPT !.ds.enabled = FALSE]
        IN IF w1.ds.evaluationTimeoutId # 0
           THEN [w1 EXCEPT !.tm = ClearTimers(@, {w1.ds.evaluationTimeoutId}),
                           !.ds.evaluationTimeoutId = 0]
           ELSE w1

setDirectorMode(w, mode, jitter) ==
    IF mode \notin DOMAIN directorConfig.modes THEN w
    ELSE
        LET wasEnabled == w.ds.enabled
            w1 == IF wasEnabled THEN stopDirector(w) ELSE w
            w2 == [w1 EXCEPT !.ds.mode = mode]
        IN IF wasEnabled THEN startDirector(w2, mode, jitter) ELSE w2

\* draw.coin and draw.u are the two draws of Math.random() the call may make.
triggerDirectorScript(w, setIndex, nVisible, draw) ==
    LET shouldInteract == nVisible > 1 /\ draw.coin < w.ds.interactionChance
        list == IF shouldInteract THEN "multipleEyesVisible"
                ELSE "singleEyeVisible"
        scriptId == weightedRandomScriptChoice(
                        directorConfig.conditions[list].scriptPreferences,
                        w.ld, directorConfig.scriptWeights, draw.u)
    IN IF scriptId # NoScript
       THEN [executeScript(w, setIndex, scriptId) EXCEPT
               !.lg.triggered = Append(@, [setIndex |-> setIndex,
                                           scriptId |-> scriptId,
                                           at |-> now, list |-> list,
                                           cooldown |-> w.ds.scriptCooldown])]
       ELSE w

\* The skip test without the test of lastBehaviorChange.
SkipsOnlyScripted(set, at) == set.currentScript # 0

\* The test under which the loop of evaluateDirector skips an eye-set at
\* time at: a script is running on it or its behaviour changed recently.
Skips(set, at) ==
    set.currentScript # 0 \/ at - set.lastBehaviorChange < Debounce

\* The body of the loop of evaluateDirector for one visible eye-set;
\* draws[idx] holds the draws of Math.random() made for it.
evaluateSet(w, idx, nVisible, draws) ==
    LET set == w.es[idx]
        draw == draws[idx]
    IN IF Skips(set, now)
       THEN w
       ELSE
           LET action == weightedRandomChoice(w.ds.triggerProbabilities,
                                              draw.r)
           IN IF action = AUTONOMOUS
              THEN IF set.behavior # AUTONOMOUS
                   THEN setEyeBehavior(w, idx, AUTONOMOUS) ELSE w
              ELSE IF action = TRACKING
              THEN IF set.behavior # TRACKING
                   THEN setEyeBehavior(w, idx, TRACKING) ELSE w
              ELSE IF action = SCRIPTED
              THEN [triggerDirectorScript(w, idx, nVisible, draw) EXCEPT
                      !.ds.lastScriptTime = now]
              ELSE w

RECURSIVE evaluateSets(_, _, _, _)
evaluateSets(w, visibleSets, k, draws) ==
    IF k > Len(visibleSets) THEN w
    ELSE evaluateSets(evaluateSet(w, visibleSets[k], Len(visibleSets), draws),
                      visibleSets, k + 1, draws)

\* eyeSets.map(...).filter(...): the visible eye-sets, by ascending index.
VisibleSets(es) ==
    SelectSeq([k \in 1 .. Cardinality(Sets) |-> k - 1],
              LAMBDA s : es[s].visible)

\* evaluateDirector whose early returns do not schedule the next evaluation.
evaluateDirectorSkipsOut(w, draws, jitter) ==
    IF ~w.ds.enabled THEN w
    ELSE
        LET w0 == [w EXCEPT !.lg.evals = @ + 1]
            visibleSets == VisibleSets(w.es)
        IN IF Len(visibleSets) = 0 THEN w0
           ELSE IF now - w.ds.lastScriptTime < w.ds.scriptCooldown THEN w0
           ELSE scheduleDirectorEvaluation(
                    evaluateSets(w0, visibleSets, 1, draws), jitter)

evaluateDirector(w, draws, jitter) ==
    IF ~w.ds.enabled THEN w
    ELSE
        LET w0 == [w EXCEPT !.lg.evals = @ + 1]
            visibleSets == VisibleSets(w.es)
        IN IF Len(visibleSets) = 0
           THEN scheduleDirectorEvaluation(w0, jitter)
           ELSE IF now - w.ds.lastScriptTime < w.ds.scriptCooldown
           THEN scheduleDirectorEvaluation(w0, jitter)
           ELSE scheduleDirectorEvaluation(
                    evaluateSets(w0, visibleSets, 1, draws), jitter)


\* ------------------------------------------------------------------- Init
\* ------------------------------------------------------------ the UI objects
\* TestMode after its constructor: render() has filled the script select
\* from the cache.  selectedScript "" is null or the placeholder option;
\* eyeSetStates[s + 1] is the entry of eye-set s; enteredAt is the count of
\* user operations at the last entry into test mode.
NoOriginalState == [directorEnabled |-> FALSE, eyeSetStates |-> <<>>]

NewTestMode(ld) ==
    [isActive |-> FALSE, visible |-> FALSE, selectedScript |-> NoScript,
     selectedEyesets |-> <<>>, scriptOptions |-> {ld[k] : k \in 1 .. Len(ld)},
     originalState |-> NoOriginalState, enteredAt |-> 0]

\* DebugPanel after its constructor.  updateInterval 0 is null; intervals
\* are the handles setInterval has returned, active until cleared; updates
\* counts the calls of update().
NewDebugPanel ==
    [visible |-> FALSE, updateInterval |-> 0, intervals |-> <<>>,
     updates |-> 0, ops |-> 0]

\* ToastManager after its constructor and loadSettings.  returned is the
\* value of the last call of cycleNotificationPreset; run holds the settings
\* before each of the calls of cycleNotificationPreset made in a row.
DefaultSettings ==
    [showBehaviorChanges |-> FALSE, showModeChanges |-> TRUE,
     showScriptExecution |-> TRUE]

NewToastManager(settings) ==
    [settings |-> settings, saved |-> settings, returned |-> 0, run |-> <<>>,
     ops |-> 0]

NewEyeSet(v) ==
    [visible |-> v, behavior |-> AUTONOMOUS, currentScript |-> 0,
     lastBehaviorChange |-> 0, idle |-> v, trackingOn |-> FALSE]

\* The state after construction, with the first k eye-sets shown.
Start(k) ==
    /\ eyeSets = [s \in Sets |-> NewEyeSet(s < k)]
    /\ scriptInstances = [s \in Sets |-> 0]
    /\ loadedScripts = <<>>
    /\ instances = <<>>
    /\ timers = <<>>
    /\ calls = <<>>
    /\ now = 0
    /\ ops = 0
    /\ cycles = [s \in Sets |-> 0]
    /\ returns = [s \in SetIdx |-> [refused |-> 0, failed |-> 0]]
    /\ saveRequested = FALSE
    /\ directorState = InitialDirectorState
    /\ directorLog = NoDirectorLog
    /\ probe = NoProbe
    /\ store = NoStore
    /\ testMode = NewTestMode(loadedScripts)
    /\ debugPanel = NewDebugPanel
    /\ toast = NewToastManager(DefaultSettings)

Init ==
    /\ \E k \in 0 .. Cardinality(Sets) : Start(k)
    /\ defaultScripts = [s \in Sets |-> NoScript]
    /\ limits = [time |-> MaxTime, ops |-> MaxOps, inst |-> MaxInst]

\* ---------------------------------------------------------------- actions
Microtask == \E c \in 1 .. Len(calls) : calls[c].hit

Pending(t) == timers[t].state = "pending"

Due(t) == Pending(t) /\ timers[t].deadline <= now

\* Room for the instances the suspended calls may still construct, plus one.
Room == Len(instances) + Len(calls) < limits.inst

CanIssue == ~Microtask /\ ops < limits.ops

Issue ==
    /\ ops' = ops + 1
    /\ UNCHANGED <<defaultScripts, now, limits, probe, store, testMode,
                   debugPanel, toast>>

Internal ==
    UNCHANGED <<defaultScripts, ops, cycles, now, limits, probe, store,
                testMode, debugPanel, toast>>

Remove(seq, c) == SubSeq(seq, 1, c - 1) \o SubSeq(seq, c + 1, Len(seq))

\* A direct call of executeScript: the P key, the test-mode panel.
ExecuteScript(s, id) ==
    /\ CanIssue /\ Room
    /\ Commit(executeScript(World, s, id))
    /\ Issue /\ UNCHANGED cycles

\* The Escape key.
StopScript(s) ==
    /\ CanIssue
    /\ Commit(stopScript(World, s))
    /\ Issue /\ UNCHANGED cycles

SetEyeBehavior(s, b) ==
    /\ CanIssue
    /\ Commit(setEyeBehavior(World, s, b))
    /\ Issue /\ UNCHANGED cycles

\* The B key.
CycleBehavior(s) ==
    /\ CanIssue /\ Room
    /\ Commit(cycleBehavior(World, s))
    /\ cycles' = [cycles EXCEPT ![s] = @ + 1]
    /\ Issue

\* The S key.
CycleScript(s) ==
    /\ CanIssue /\ Room
    /\ Commit(cycleScript(World, s))
    /\ Issue /\ UNCHANGED cycles

\* Keys 1-0: the rendering layer shows or hides an eye-set.
ToggleVisible(s) ==
    /\ CanIssue
    /\ eyeSets' = [eyeSets EXCEPT ![s].visible = ~@]
    /\ UNCHANGED <<scriptInstances, loadedScripts, instances, timers, calls,
                   saveRequested, cycles, returns, directorState, directorLog>>
    /\ Issue

\* The continuation of `await loadScript(id)` when loadScript returned the
\* cached object: the oldest such continuation runs first.
ResumeCached ==
    /\ Microtask
    /\ LET c == CHOOSE c \in 1 .. Len(calls) :
                   calls[c].hit /\ \A d \in 1 .. (c - 1) : ~calls[d].hit
           call == calls[c]
           w == [World EXCEPT !.cl = Remove(calls, c)]
       IN Commit(executeScriptResume(w, call.setIndex, call.scriptId,
                                     ScriptObject(call.scriptId)))
    /\ Internal

\* A failed load that stops the idle animations before it gives up.
FetchDoneStopsFirst(c) ==
    /\ ~Microtask
    /\ c \in 1 .. Len(calls)
    /\ LET call == calls[c]
           w == [World EXCEPT !.cl = Remove(calls, c)]
       IN IF Loadable(call.scriptId)
          THEN Commit(executeScriptResume(
                          [w EXCEPT !.ld = CacheSet(@, call.scriptId)],
                          call.setIndex, call.scriptId,
                          ScriptObject(call.scriptId)))
          ELSE Commit(stopEyeSetAnimations(
                          [w EXCEPT !.rt[call.setIndex].failed = @ + 1],
                          call.setIndex))
    /\ Internal

\* The fetch of a script file ends: loadScript validates, sorts, derives the
\* duration and caches, or returns null; executeScript continues with it.
FetchDone(c) ==
    /\ ~Microtask
    /\ c \in 1 .. Len(calls)
    /\ LET call == calls[c]
           w == [World EXCEPT !.cl = Remove(calls, c)]
       IN IF Loadable(call.scriptId)
          THEN Commit(executeScriptResume(
                          [w EXCEPT !.ld = CacheSet(@, call.scriptId)],
                          call.setIndex, call.scriptId,
                          ScriptObject(call.scriptId)))
          ELSE Commit([w EXCEPT !.rt[call.setIndex].failed = @ + 1])
    /\ Internal

\* Timers that are due fire in any order.
MayFireAnyOrder(t) == Due(t)

\* Two timers with one deadline fire in creation order when they were
\* created with the same delay, in any order otherwise.
MayFire(t) ==
    /\ Due(t)
    /\ \A u \in 1 .. (t - 1) : ~(Due(u) /\ timers[u].delay <= timers[t].delay)

FireAction(t) ==
    /\ ~Microtask /\ MayFire(t)
    /\ timers[t].kind = "action"
    /\ Commit(executeAction([World EXCEPT !.tm[t].state = "fired"], t))
    /\ Internal

\* The callback of an interaction timer.  executeScript returns a promise,
\* which is never falsy, so the push onto interactionInstances always runs.
FireInteraction(t) ==
    /\ ~Microtask /\ MayFire(t)
    /\ timers[t].kind = "interaction" /\ Room
    /\ LET tm == timers[t]
           interaction == ScriptObject(tm.script).interactions[tm.idx]
           targetScript == IF interaction.scriptId # NoScript
                           THEN interaction.scriptId ELSE tm.script
           w == [World EXCEPT !.tm[t].state = "fired",
                              !.ins[tm.inst].interactionInstances = @ + 1]
           w1 == executeScript(w, interaction.targetSet, targetScript)
       IN Commit([w1 EXCEPT !.tm[t].started = (w1.cl # w.cl)])
    /\ Internal

FireCompletion(t) ==
    /\ ~Microtask /\ MayFire(t)
    /\ timers[t].kind = "completion"
    /\ Commit(completeScript([World EXCEPT !.tm[t].state = "fired"],
                             timers[t].set, t))
    /\ Internal

Tick ==
    /\ ~Microtask
    /\ now < limits.time
    /\ \A t \in 1 .. Len(timers) : ~Due(t)
    /\ now' = now + 1
    /\ UNCHANGED <<eyeSets, scriptInstances, loadedScripts, defaultScripts,
                   instances, timers, calls, ops, cycles, limits, returns,
                   saveRequested, directorState, directorLog, probe, store,
                   testMode, debugPanel, toast>>

Engine ==
    \/ ResumeCached
    \/ \E c \in 1 .. Len(calls) : FetchDone(c)
    \/ \E t \in 1 .. Len(timers) : FireAction(t)
    \/ \E t \in 1 .. Len(timers) : FireInteraction(t)
    \/ \E t \in 1 .. Len(timers) : FireCompletion(t)
    \/ Tick

\* The script engine under direct calls.
Next ==
    \/ Engine
    \/ \E s \in SetIdx, id \in ScriptIds : ExecuteScript(s, id)
    \/ \E s \in SetIdx : StopScript(s)
    \/ \E s \in Sets : ToggleVisible(s)

Spec == Init /\ [][Next]_vars

\* One executeScript call on the first eye-set with every eye-set shown, and
\* no user operation after it.
InitOnce ==
    /\ Start(Cardinality(Sets))
    /\ defaultScripts = [s \in Sets |-> NoScript]
    /\ limits = [time |-> ChainTime, ops |-> 1, inst |-> ChainInst]

NextOnce ==
    \/ Engine
    \/ \E id \in ScriptIds : ExecuteScript(0, id)

SpecOnce == InitOnce /\ [][NextOnce]_vars

\* The behaviour manager under the B and S keys and the director's calls of
\* setEyeBehavior.
InitCycle ==
    /\ \E k \in 0 .. Cardinality(Sets) : Start(k)
    /\ \E d0 \in {NoScript, "surprise", "sync_blink"},
          d1 \in {NoScript, "surprise"} :
           defaultScripts = [s \in Sets |->
                               IF s = 0 THEN d0 ELSE IF s = 1 THEN d1
                               ELSE NoScript]
    /\ limits = [time |-> MaxTime, ops |-> CycleOps, inst |-> MaxInst]

NextCycle ==
    \/ Engine
    \/ \E s \in SetIdx : CycleBehavior(s)
    \/ \E s \in SetIdx : CycleScript(s)
    \/ \E s \in SetIdx, b \in {AUTONOMOUS, TRACKING} : SetEyeBehavior(s, b)

SpecCycle == InitCycle /\ [][NextCycle]_vars

\* ------------------------------------------------------- director actions
DirectorModes == {"passive", "active", "chaotic", "frantic"}

\* One draw of Rand for each value F takes on Rand.
Reps(F(_)) == {CHOOSE r \in Rand : F(r) = v : v \in {F(r) : r \in Rand}}

\* The draws an evaluation may make for one eye-set, one for each outcome
\* they can have in the world w.
DirectorDraws(w) ==
    [r : Reps(LAMBDA x : weightedRandomChoice(w.ds.triggerProbabilities, x)),
     coin : Reps(LAMBDA x : x < w.ds.interactionChance),
     u : Reps(LAMBDA x :
                <<weightedRandomScriptChoice(
                      directorConfig.conditions.multipleEyesVisible
                          .scriptPreferences,
                      w.ld, directorConfig.scriptWeights, x),
                  weightedRandomScriptChoice(
                      directorConfig.conditions.singleEyeVisible
                          .scriptPreferences,
                      w.ld, directorConfig.scriptWeights, x)>>)]

\* The eye-sets the loop of evaluateDirector does not skip.
Eligible(s) == eyeSets[s].visible /\ ~Skips(eyeSets[s], now)

RoomFor(n) == Len(instances) + Len(calls) + n <= limits.inst

\* The D key with the director off, and startDirector(mode) in general.
StartDirector(mode) ==
    /\ CanIssue
    /\ \E jitter \in Jitter : Commit(startDirector(World, mode, jitter))
    /\ Issue /\ UNCHANGED cycles

\* The D key with the director on.
StopDirector ==
    /\ CanIssue
    /\ Commit(stopDirector(World))
    /\ Issue /\ UNCHANGED cycles

\* The M key, and setDirectorMode(mode) in general.
SetDirectorMode(mode) ==
    /\ CanIssue
    /\ \E jitter \in Jitter : Commit(setDirectorMode(World, mode, jitter))
    /\ Issue /\ UNCHANGED cycles

\* The callback of the evaluation timer.  An eye-set the loop skips makes no
\* draw.
FireEvaluation(t) ==
    /\ ~Microtask /\ MayFire(t)
    /\ timers[t].kind = "evaluation"
    /\ RoomFor(Len(VisibleSets(eyeSets)))
    /\ \E jitter \in Jitter,
          draws \in [{s \in Sets : Eligible(s)} -> DirectorDraws(World)] :
           Commit(evaluateDirector([World EXCEPT !.tm[t].state = "fired"],
                                   draws, jitter))
    /\ Internal

ChooseAction(weights, rand) ==
    /\ probe' = [fn |-> "weightedRandomChoice", weights |-> weights,
                 rand |-> rand,
                 result |-> weightedRandomChoice(weights, rand)]
    /\ UNCHANGED <<eyeSets, scriptInstances, loadedScripts, defaultScripts,
                   instances, timers, calls, now, ops, cycles, limits,
                   returns, saveRequested, directorState, directorLog, store,
                   testMode, debugPanel, toast>>

ChooseScript(scriptIds, ld, scriptWeights, u) ==
    /\ probe' = [fn |-> "weightedRandomScriptChoice", scriptIds |-> scriptIds,
                 ld |-> ld, scriptWeights |-> scriptWeights, u |-> u,
                 result |-> weightedRandomScriptChoice(scriptIds, ld,
                                                       scriptWeights, u)]
    /\ UNCHANGED <<eyeSets, scriptInstances, loadedScripts, defaultScripts,
                   instances, timers, calls, now, ops, cycles, limits,
                   returns, saveRequested, directorState, directorLog, store,
                   testMode, debugPanel, toast>>

\* A page that has loaded: the first k eye-sets shown, the scripts ld
\* preloaded, the clock at Epoch.
PageLoaded(k, ld) ==
    /\ eyeSets = [s \in Sets |-> NewEyeSet(s < k)]
    /\ scriptInstances = [s \in Sets |-> 0]
    /\ loadedScripts = ld
    /\ defaultScripts = [s \in Sets |-> NoScript]
    /\ instances = <<>>
    /\ timers = <<>>
    /\ calls = <<>>
    /\ now = Epoch
    /\ ops = 0
    /\ cycles = [s \in Sets |-> 0]
    /\ returns = [s \in SetIdx |-> [refused |-> 0, failed |-> 0]]
    /\ saveRequested = FALSE
    /\ directorState = InitialDirectorState
    /\ directorLog = NoDirectorLog
    /\ probe = NoProbe
    /\ store = NoStore
    /\ testMode = NewTestMode(loadedScripts)
    /\ debugPanel = NewDebugPanel
    /\ toast = NewToastManager(DefaultSettings)

\* The director and the scripts it starts.
InitDirector ==
    /\ \E k \in 0 .. 2, ld \in {<<>>, <<"surprise", "sync_blink">>} :
          PageLoaded(k, ld)
    /\ limits = [time |-> Epoch + DirTime, ops |-> DirOps, inst |-> DirInst]

\* The director only starts scripts that are in the cache, so no fetch is in
\* flight here.
NextDirector ==
    \/ ResumeCached
    \/ \E t \in 1 .. Len(timers) : FireAction(t)
    \/ \E t \in 1 .. Len(timers) : FireInteraction(t)
    \/ \E t \in 1 .. Len(timers) : FireCompletion(t)
    \/ \E t \in 1 .. Len(timers) : FireEvaluation(t)
    \/ Tick
    \/ \E mode \in {"active", "chaotic"} : StartDirector(mode)
    \/ StopDirector
    \/ \E mode \in {"active", "chaotic"} : SetDirectorMode(mode)

SpecDirector == InitDirector /\ [][NextDirector]_vars

\* The controls of the director, with no script in the cache: no evaluation
\* can start a script.
InitModes ==
    /\ \E k \in 0 .. 1 : PageLoaded(k, <<>>)
    /\ limits = [time |-> Epoch + ModeTime, ops |-> ModeOps, inst |-> DirInst]

NextModes ==
    \/ \E t \in 1 .. Len(timers) : FireEvaluation(t)
    \/ Tick
    \/ \E mode \in DirectorModes : StartDirector(mode)
    \/ StopDirector
    \/ \E mode \in DirectorModes : SetDirectorMode(mode)

SpecModes == InitModes /\ [][NextModes]_vars

\* The director left to run: the timers of the event loop fire when they are
\* due and the clock advances, up to the horizon.  No script with
\* interactions is in the cache.
InitLive ==
    /\ \E k \in 0 .. 1, ld \in {<<>>, <<"surprise">>} : PageLoaded(k, ld)
    /\ limits = [time |-> Epoch + LiveTime, ops |-> LiveOps, inst |-> DirInst]

LiveEngine ==
    \/ ResumeCached
    \/ \E t \in 1 .. Len(timers) : FireAction(t)
    \/ \E t \in 1 .. Len(timers) : FireCompletion(t)
    \/ \E t \in 1 .. Len(timers) : FireEvaluation(t)
    \/ Tick

NextLive ==
    \/ LiveEngine
    \/ \E mode \in {"active", "chaotic"} : StartDirector(mode)
    \/ StopDirector

SpecLive == InitLive /\ [][NextLive]_vars /\ WF_vars(LiveEngine)

\* The selection functions of the director on their own.
ProbeTables ==
    {directorConfig.modes[m].triggerProbabilities :
        m \in DOMAIN directorConfig.modes}
    \cup {Table(3, 2, 0), Table(0, 0, 0)}

ProbeLists ==
    {directorConfig.conditions.multipleEyesVisible.scriptPreferences,
     directorConfig.conditions.singleEyeVisible.scriptPreferences,
     <<"surprise", "sync_blink">>, <<"sync_blink", "surprise">>}

ProbeCaches == {<<>>, <<"surprise">>, <<"surprise", "sync_blink">>}

ProbeWeights ==
    {directorConfig.scriptWeights, [surprise |-> 10], [sync_blink |-> 12]}

InitChoice ==
    /\ Start(0)
    /\ defaultScripts = [s \in Sets |-> NoScript]
    /\ limits = [time |-> 0, ops |-> 0, inst |-> 0]

NextChoice ==
    \/ \E weights \in ProbeTables, rand \in Rand : ChooseAction(weights, rand)
    \/ \E scriptIds \in ProbeLists, ld \in ProbeCaches,
          scriptWeights \in ProbeWeights, u \in Rand :
           ChooseScript(scriptIds, ld, scriptWeights, u)

SpecChoice == InitChoice /\ [][NextChoice]_vars

\* The S key on a page whose scripts have been preloaded.
InitKeys ==
    /\ \E k \in 1 .. 2,
          ld \in {<<>>, <<"surprise", "sync_blink">>,
                  <<"sync_blink", "surprise">>} : PageLoaded(k, ld)
    /\ limits = [time |-> Epoch + KeysTime, ops |-> KeysOps, inst |-> MaxInst]

NextKeys ==
    \/ ResumeCached
    \/ \E t \in 1 .. Len(timers) : FireAction(t)
    \/ \E t \in 1 .. Len(timers) : FireInteraction(t)
    \/ \E t \in 1 .. Len(timers) : FireCompletion(t)
    \/ Tick
    \/ \E s \in SetIdx : CycleScript(s)

SpecKeys == InitKeys /\ [][NextKeys]_vars

\* A script with an unknown action among the scripts started.
InitGlitch ==
    /\ \E k \in 1 .. 2 : Start(k)
    /\ defaultScripts = [s \in Sets |-> NoScript]
    /\ limits = [time |-> GlitchTime, ops |-> GlitchOps, inst |-> MaxInst]

NextGlitch ==
    \/ ResumeCached
    \/ \E c \in 1 .. Len(calls) : FetchDone(c)
    \/ \E t \in 1 .. Len(timers) : FireAction(t)
    \/ \E t \in 1 .. Len(timers) : FireCompletion(t)
    \/ Tick
    \/ \E s \in 0 .. 1, id \in {"glitch", "surprise"} : ExecuteScript(s, id)
    \/ \E s \in 0 .. 1 : StopScript(s)

SpecGlitch == InitGlitch /\ [][NextGlitch]_vars

\* --------------------------------------------------------- Script Store
StoreStep ==
    UNCHANGED <<eyeSets, scriptInstances, loadedScripts, defaultScripts,
                instances, timers, calls, now, ops, cycles, limits, returns,
                saveRequested, directorState, directorLog, probe, testMode,
                debugPanel, toast>>

\* A call of loadScript: by executeScript, by preloadAllScripts.
LoadScript(id) ==
    /\ Len(store.loads) < StoreLoads
    /\ store' = loadScript(store, id)
    /\ StoreStep

PreloadAllScripts ==
    /\ Len(store.loads) + Len(scriptList) <= StoreLoads
    /\ store' = preloadAllScripts(store)
    /\ StoreStep

\* The fetch of a loadScript call is answered with what the file holds then.
FetchSettles(l) ==
    /\ store.loads[l].state = "fetching"
    /\ store' = loadScriptSettled(store, l)
    /\ StoreStep

\* The scripts/ directory changes on the server.
Publish(id, d) ==
    /\ store.published < StorePubs
    /\ store.files[id] # d
    /\ store' = [store EXCEPT !.files[id] = d, !.published = @ + 1]
    /\ StoreStep

InitStore ==
    /\ Start(0)
    /\ defaultScripts = [s \in Sets |-> NoScript]
    /\ limits = [time |-> 0, ops |-> 0, inst |-> 0]

NextStore ==
    \/ \E id \in StoreIds : LoadScript(id)
    \/ PreloadAllScripts
    \/ \E l \in 1 .. Len(store.loads) : FetchSettles(l)
    \/ \E id \in StoreIds : \E d \in FileContents(id) : Publish(id, d)

SpecStore == InitStore /\ [][NextStore]_vars

\* ------------------------------------------------------------ ToastManager
ToastOps == 5

Flags(mode, behavior, script) ==
    [showBehaviorChanges |-> behavior, showModeChanges |-> mode,
     showScriptExecution |-> script]

getNotificationPreset(settings) ==
    LET showModeChanges == settings.showModeChanges
        showBehaviorChanges == settings.showBehaviorChanges
        showScriptExecution == settings.showScriptExecution
    IN IF ~showModeChanges /\ ~showBehaviorChanges /\ ~showScriptExecution
       THEN 0
       ELSE IF showModeChanges /\ ~showBehaviorChanges /\ ~showScriptExecution
       THEN 1
       ELSE IF showModeChanges /\ showBehaviorChanges /\ ~showScriptExecution
       THEN 2
       ELSE IF showModeChanges /\ showBehaviorChanges /\ showScriptExecution
       THEN 3
       ELSE IF showModeChanges /\ showBehaviorChanges THEN 2
       ELSE IF showModeChanges THEN 1
       ELSE 0

\* cycleNotificationPreset that leaves showScriptExecution as it is on the
\* way to the presets 1 and 2.
cycleNotificationPresetKeepsScript(settings) ==
    LET current == getNotificationPreset(settings)
    IN IF current = 0
       THEN [settings |-> Flags(TRUE, FALSE, settings.showScriptExecution),
             next |-> 1]
       ELSE IF current = 1
       THEN [settings |-> Flags(TRUE, TRUE, settings.showScriptExecution),
             next |-> 2]
       ELSE IF current = 2
       THEN [settings |-> Flags(TRUE, TRUE, TRUE), next |-> 3]
       ELSE [settings |-> Flags(FALSE, FALSE, FALSE), next |-> 0]

\* The settings cycleNotificationPreset assigns and the value it returns;
\* case 3 and the default case assign and return the same.
cycleNotificationPreset(settings) ==
    LET current == getNotificationPreset(settings)
    IN IF current = 0
       THEN [settings |-> Flags(TRUE, FALSE, FALSE), next |-> 1]
       ELSE IF current = 1
       THEN [settings |-> Flags(TRUE, TRUE, FALSE), next |-> 2]
       ELSE IF current = 2
       THEN [settings |-> Flags(TRUE, TRUE, TRUE), next |-> 3]
       ELSE [settings |-> Flags(FALSE, FALSE, FALSE), next |-> 0]

\* A step of the UI objects leaves the eye-sets and the engine alone.
UiStep ==
    UNCHANGED <<eyeSets, scriptInstances, loadedScripts, defaultScripts,
                instances, timers, calls, now, ops, cycles, limits, returns,
                saveRequested, directorState, directorLog, probe, store>>

\* A toggle or setter of one setting, followed by saveSettings.
Toggled(settings) ==
    [toast EXCEPT !.settings = settings, !.saved = settings, !.run = <<>>,
                  !.ops = @ + 1]

CycleNotificationPreset ==
    /\ toast.ops < ToastOps
    /\ LET r == cycleNotificationPreset(toast.settings)
       IN toast' = [settings |-> r.settings, saved |-> r.settings,
                    returned |-> r.next,
                    run |-> Append(toast.run, toast.settings),
                    ops |-> toast.ops + 1]
    /\ UiStep /\ UNCHANGED <<testMode, debugPanel>>

ToggleBehaviorChanges ==
    /\ toast.ops < ToastOps
    /\ toast' = Toggled([toast.settings EXCEPT !.showBehaviorChanges = ~@])
    /\ UiStep /\ UNCHANGED <<testMode, debugPanel>>

ToggleScriptExecution ==
    /\ toast.ops < ToastOps
    /\ toast' = Toggled([toast.settings EXCEPT !.showScriptExecution = ~@])
    /\ UiStep /\ UNCHANGED <<testMode, debugPanel>>

ToggleModeChanges ==
    /\ toast.ops < ToastOps
    /\ toast' = Toggled([toast.settings EXCEPT !.showModeChanges = ~@])
    /\ UiStep /\ UNCHANGED <<testMode, debugPanel>>

InitToast ==
    /\ Start(0)
    /\ defaultScripts = [s \in Sets |-> NoScript]
    /\ limits = [time |-> 0, ops |-> 0, inst |-> 0]

NextToast ==
    \/ CycleNotificationPreset
    \/ ToggleBehaviorChanges
    \/ ToggleScriptExecution
    \/ ToggleModeChanges

SpecToast == InitToast /\ [][NextToast]_vars

\* -------------------------------------------------------------- DebugPanel
PanelOps == 4
PanelUpdates == 2

DebugPanel_show(p) ==
    [p EXCEPT !.visible = TRUE,
              !.updates = @ + 1,
              !.intervals = Append(@, [active |-> TRUE]),
              !.updateInterval = Len(p.intervals) + 1]

DebugPanel_hide(p) ==
    LET p1 == [p EXCEPT !.visible = FALSE]
    IN IF p.updateInterval # 0
       THEN [p1 EXCEPT !.intervals[p.updateInterval].active = FALSE,
                       !.updateInterval = 0]
       ELSE p1

DebugPanel_toggle(p) ==
    IF p.visible THEN DebugPanel_hide(p) ELSE DebugPanel_show(p)

PanelCall(p) ==
    /\ debugPanel.ops < PanelOps
    /\ debugPanel' = [p EXCEPT !.ops = @ + 1]
    /\ UiStep /\ UNCHANGED <<testMode, toast>>

PanelShow == PanelCall(DebugPanel_show(debugPanel))

\* hide(), and the click on the close button.
PanelHide == PanelCall(DebugPanel_hide(debugPanel))

PanelToggle == PanelCall(DebugPanel_toggle(debugPanel))

\* The callback of an interval that has not been cleared.
PanelUpdate(h) ==
    /\ debugPanel.intervals[h].active
    /\ debugPanel.updates < PanelOps + PanelUpdates
    /\ debugPanel' = [debugPanel EXCEPT !.updates = @ + 1]
    /\ UiStep /\ UNCHANGED <<testMode, toast>>

InitPanel ==
    /\ Start(0)
    /\ defaultScripts = [s \in Sets |-> NoScript]
    /\ limits = [time |-> 0, ops |-> 0, inst |-> 0]

NextPanel ==
    \/ PanelShow
    \/ PanelHide
    \/ PanelToggle
    \/ \E h \in 1 .. Len(debugPanel.intervals) : PanelUpdate(h)

SpecPanel == InitPanel /\ [][NextPanel]_vars

\* ---------------------------------------------------------------- TestMode
TestTime == 2
TestOps == 3
TestInst == 2

\* The loop of enterTestMode from eye-set s on: the state of each eye-set is
\* stored, its script stopped, its loops stopped and its behavior assigned.
RECURSIVE enterEyeSets(_, _, _)
enterEyeSets(w, states, s) ==
    IF s \notin Sets THEN [w |-> w, states |-> states]
    ELSE
        LET eyeSet == w.es[s]
            originalState ==
                [behavior |-> eyeSet.behavior,
                 hasScript |-> eyeSet.currentScript # 0,
                 scriptName |->
                     IF eyeSet.currentScript # 0
                     THEN ScriptObject(
                              w.ins[eyeSet.currentScript].scriptId).name
                     ELSE NoScript]
            w1 == IF eyeSet.currentScript # 0 THEN stopScript(w, s) ELSE w
            w2 == stopEyeSetAnimations(w1, s)
            w3 == IF w2.es[s].behavior = TRACKING
                  THEN stopEyeSetTracking(w2, s) ELSE w2
            w4 == [w3 EXCEPT !.es[s].behavior = AUTONOMOUS]
        IN enterEyeSets(w4, Append(states, originalState), s + 1)

\* Each of the functions below maps the world w and the TestMode object t to
\* the pair of both after the call.
enterTestMode(w, t) ==
    IF t.isActive THEN [w |-> w, t |-> t]
    ELSE
        LET w1 == IF w.ds.enabled THEN stopDirector(w) ELSE w
            r == enterEyeSets(w1, <<>>, 0)
        IN [w |-> r.w,
            t |-> [t EXCEPT !.isActive = TRUE,
                            !.originalState =
                                [directorEnabled |-> w.ds.enabled,
                                 eyeSetStates |-> r.states]]]

\* The loop of exitTestMode from eye-set s on.
RECURSIVE restoreEyeSets(_, _, _)
restoreEyeSets(w, states, s) ==
    IF s + 1 > Len(states) THEN w
    ELSE
        LET originalState == states[s + 1]
            w1 == IF originalState.behavior # SCRIPTED
                  THEN setEyeBehavior(w, s, originalState.behavior)
                  ELSE w
        IN restoreEyeSets(w1, states, s + 1)

exitTestMode(w, t, jitter) ==
    IF ~t.isActive THEN [w |-> w, t |-> t]
    ELSE
        LET w1 == IF t.originalState.directorEnabled
                  THEN startDirector(w, w.ds.mode, jitter)
                  ELSE w
        IN [w |-> restoreEyeSets(w1, t.originalState.eyeSetStates, 0),
            t |-> [t EXCEPT !.isActive = FALSE,
                            !.originalState = NoOriginalState]]

TestMode_show(w, t) ==
    IF t.isActive THEN [w |-> w, t |-> t]
    ELSE
        LET r == enterTestMode(w, t)
        IN [w |-> r.w,
            t |-> [r.t EXCEPT
                     !.scriptOptions = {w.ld[k] : k \in 1 .. Len(w.ld)},
                     !.visible = TRUE]]

TestMode_hide(w, t, jitter) ==
    IF ~t.isActive THEN [w |-> w, t |-> t]
    ELSE
        LET r == exitTestMode(w, t, jitter)
        IN [w |-> r.w,
            t |-> [r.t EXCEPT !.visible = FALSE,
                              !.selectedScript = NoScript,
                              !.selectedEyesets = <<>>]]

TestMode_toggle(w, t, jitter) ==
    IF t.visible THEN TestMode_hide(w, t, jitter) ELSE TestMode_show(w, t)

\* The calls of executeScriptFn execute() makes, in the order of the Set.
RECURSIVE executeSelected(_, _, _, _)
executeSelected(w, selected, k, id) ==
    IF k > Len(selected) THEN w
    ELSE executeSelected(executeScript(w, selected[k], id), selected, k + 1,
                         id)

\* execute() up to its `await Promise.all(promises)`; nothing after it
\* changes the state.
TestMode_execute(w, t) ==
    IF t.selectedScript = NoScript \/ t.selectedEyesets = <<>>
    THEN [w |-> w, t |-> t]
    ELSE
        LET r == enterTestMode(w, t)
        IN [w |-> executeSelected(r.w, t.selectedEyesets, 1,
                                  t.selectedScript),
            t |-> r.t]

\* A call on the TestMode object; enteredAt is stamped when the call enters
\* test mode.
TestCall(r) ==
    /\ CanIssue
    /\ Commit(r.w)
    /\ testMode' = [r.t EXCEPT !.enteredAt =
                       IF r.t.isActive /\ ~testMode.isActive
                       THEN ops + 1 ELSE @]
    /\ ops' = ops + 1
    /\ UNCHANGED <<defaultScripts, cycles, now, limits, probe, store,
                   debugPanel, toast>>

TestShow == TestCall(TestMode_show(World, testMode))

\* hide(), and the clicks on the two close buttons.
TestHide ==
    \E jitter \in Jitter : TestCall(TestMode_hide(World, testMode, jitter))

TestToggle ==
    \E jitter \in Jitter : TestCall(TestMode_toggle(World, testMode, jitter))

\* The click on the Execute button.
TestExecute ==
    /\ RoomFor(Len(testMode.selectedEyesets))
    /\ TestCall(TestMode_execute(World, testMode))

\* The change event of the script select: an option of the list, or the
\* placeholder.
SelectScript(id) ==
    /\ id \in testMode.scriptOptions \cup {NoScript}
    /\ id # testMode.selectedScript
    /\ TestCall([w |-> World, t |-> [testMode EXCEPT !.selectedScript = id]])

\* The change event of the checkbox of eye-set s, which is disabled for an
\* eye-set that is hidden.
SelectEyeset(s) ==
    /\ eyeSets[s].visible
    /\ LET selected == testMode.selectedEyesets
           at == {k \in 1 .. Len(selected) : selected[k] = s}
           next == IF at = {} THEN Append(selected, s)
                   ELSE Remove(selected, CHOOSE k \in at : TRUE)
       IN TestCall([w |-> World,
                    t |-> [testMode EXCEPT !.selectedEyesets = next]])

\* Test mode on a page with the script surprise preloaded, the keys that
\* change an eye-set or the director, and the timers of the scripts.  The
\* horizon ends before the first evaluation of the director is due.
InitTestMode ==
    /\ \E k \in 1 .. 2 : PageLoaded(k, <<"surprise">>)
    /\ limits = [time |-> Epoch + TestTime, ops |-> TestOps, inst |-> TestInst]

NextTestMode ==
    \/ TestShow
    \/ TestHide
    \/ TestToggle
    \/ TestExecute
    \/ \E id \in ScriptIds \cup {NoScript} : SelectScript(id)
    \/ \E s \in 0 .. 1 : SelectEyeset(s)
    \/ \E s \in 0 .. 1 : ExecuteScript(s, "surprise")
    \/ \E s \in 0 .. 1 : SetEyeBehavior(s, TRACKING)
    \/ StartDirector("active")
    \/ ResumeCached
    \/ \E t \in 1 .. Len(timers) : FireAction(t)
    \/ \E t \in 1 .. Len(timers) : FireCompletion(t)
    \/ Tick

SpecTestMode == InitTestMode /\ [][NextTestMode]_vars

\* ================================================================= claims
Instances == 1 .. Len(instances)
Timers == 1 .. Len(timers)
TimersOf(i) == {t \in Timers : timers[t].inst = i}
HasRun(s) == \E i \in Instances : instances[i].setIndex = s
Stopped(i) == instances[i].ended /\ instances[i].endedBy = 0
Frame == <<eyeSets, scriptInstances, loadedScripts, instances, timers>>

\* C1: when executeScript starts a script on an eye-set that already runs
\* one, every timer of the prior instance is cancelled before the new
\* instance's timers exist, and the new instance is never completed by a
\* completion timer of another instance.
C1_PriorTimersCancelled ==
    /\ \A i \in Instances, j \in Instances :
          (i < j /\ instances[i].setIndex = instances[j].setIndex)
              => \A t \in TimersOf(i) : ~Pending(t)
    /\ \A j \in Instances :
          (instances[j].ended /\ instances[j].endedBy # 0)
              => timers[instances[j].endedBy].inst = j

\* C2: an eye-set never has two active ScriptInstances (isRunning with
\* pending timers) at once.
Active(i) == instances[i].isRunning /\ \E t \in TimersOf(i) : Pending(t)

C2_AtMostOneActive ==
    \A s \in Sets :
        Cardinality({i \in Instances : instances[i].setIndex = s /\ Active(i)})
            <= 1

\* C3: a single executeScript of a script with an explicit duration beyond
\* its last timeline time, nothing else touching the eye-set: behaviour is
\* scripted while the script runs, every timeline action is invoked once, in
\* timeline order, at its declared time, and at the duration the eye-set is
\* back to autonomous with no currentScript.
Explicit(id) ==
    /\ ScriptFile(id).hasDuration
    /\ \A k \in 1 .. Len(ScriptFile(id).timeline) :
          ScriptFile(id).timeline[k].time < ScriptFile(id).duration

Alone(i) ==
    \A j \in Instances : j # i => instances[j].setIndex # instances[i].setIndex

C3_ScenarioRuns ==
    \A i \in Instances :
        LET inst == instances[i]
            s == inst.setIndex
            obj == ScriptObject(inst.scriptId)
            n == Len(inst.invoked)
        IN (ops = 1 /\ Alone(i) /\ Explicit(inst.scriptId)) =>
            /\ ~inst.ended =>
                  (eyeSets[s].behavior = SCRIPTED /\ eyeSets[s].currentScript = i)
            /\ n <= Len(obj.timeline)
            /\ \A k \in 1 .. n :
                  /\ inst.invoked[k].idx = k
                  /\ inst.invoked[k].at = inst.startTime + obj.timeline[k].time
                  /\ inst.invoked[k].handled
            /\ \A k \in 1 .. Len(obj.timeline) :
                  now > inst.startTime + obj.timeline[k].time => n >= k
            /\ now > inst.startTime + obj.duration => inst.ended
            /\ inst.ended =>
                  /\ n = Len(obj.timeline)
                  /\ inst.endedBy \in Timers
                  /\ timers[inst.endedBy].inst = i
                  /\ timers[inst.endedBy].deadline = inst.startTime + obj.duration
                  /\ eyeSets[s].lastBehaviorChange = inst.startTime + obj.duration
                  /\ eyeSets[s].behavior = AUTONOMOUS
                  /\ eyeSets[s].currentScript = 0

C3_Witness ==
    \E i \in Instances :
        /\ ops = 1 /\ Alone(i) /\ Explicit(instances[i].scriptId)
        /\ instances[i].ended
        /\ Len(instances[i].invoked) = 2

\* C4: with no user operation after the executeScript call, an eye-set that
\* has run a script and is back to autonomous with no currentScript stays
\* there.
Settled(s) ==
    /\ HasRun(s)
    /\ eyeSets[s].behavior = AUTONOMOUS
    /\ eyeSets[s].currentScript = 0

C4_StaysAutonomous ==
    [][\A s \in Sets :
          Settled(s) =>
              (eyeSets'[s].behavior = AUTONOMOUS /\ eyeSets'[s].currentScript = 0)
      ]_vars

\* C5: stopScript on an eye-set with a current script leaves the eye-set
\* autonomous with no currentScript and none of that instance's timers
\* pending; from then on no timeline action of the instance is invoked and
\* none of its timers fires.
C5_StopCancels ==
    [][/\ \A s \in Sets :
             (eyeSets[s].currentScript # 0 /\ StopScript(s)) =>
                 /\ eyeSets'[s].currentScript = 0
                 /\ eyeSets'[s].behavior = AUTONOMOUS
                 /\ instances'[eyeSets[s].currentScript].ended
                 /\ instances'[eyeSets[s].currentScript].endedBy = 0
                 /\ \A t \in TimersOf(eyeSets[s].currentScript) :
                       timers'[t].state # "pending"
       /\ \A i \in Instances :
             Stopped(i) =>
                 /\ instances'[i].invoked = instances[i].invoked
                 /\ \A t \in TimersOf(i) : timers'[t].state = timers[t].state
      ]_vars

C5_Witness ==
    \E i \in Instances :
        /\ Stopped(i)
        /\ \E t \in TimersOf(i) :
              /\ timers[t].kind = "action"
              /\ timers[t].state = "cleared"
              /\ now > timers[t].deadline
        /\ \E t \in TimersOf(i) :
              timers[t].kind = "completion" /\ timers[t].state = "cleared"

\* C6: executeScript on an index with no eye-set, or on a hidden eye-set,
\* returns null and changes nothing.
C6_RefusedChangesNothing ==
    [][\A s \in SetIdx, id \in ScriptIds :
          (ExecuteScript(s, id) /\ (~Exists(s) \/ ~eyeSets[s].visible)) =>
              /\ UNCHANGED Frame
              /\ UNCHANGED calls
              /\ returns'[s].refused = returns[s].refused + 1
      ]_vars

C6_Witness ==
    /\ ops = 1 /\ instances = <<>> /\ calls = <<>>
    /\ \E s \in Sets : returns[s].refused = 1 /\ ~eyeSets[s].visible
    /\ returns[3].refused = 0

\* C7: an executeScript whose script cannot be loaded changes nothing but
\* its own suspension: not at the call, and not when the load fails.
C7_FailedLoadChangesNothing ==
    [][/\ \A s \in SetIdx, id \in ScriptIds :
             (ExecuteScript(s, id) /\ ~Loadable(id)) => UNCHANGED Frame
       /\ \A c \in 1 .. Len(calls) :
             (FetchDone(c) /\ ~Loadable(calls[c].scriptId)) =>
                 /\ UNCHANGED Frame
                 /\ returns'[calls[c].setIndex].failed
                        = returns[calls[c].setIndex].failed + 1
      ]_vars

C7_Witness ==
    \E s \in Sets :
        /\ ops = 2
        /\ returns[s].failed = 1
        /\ eyeSets[s].currentScript # 0
        /\ \E t \in TimersOf(eyeSets[s].currentScript) : Pending(t)

\* C8: an interaction {targetSet, startTime} with no scriptId fires
\* startTime after its script started, unless the script was stopped or
\* completed first, and a visible target then begins the same script at
\* that moment.
InteractionTimer(i, k) ==
    CHOOSE t \in TimersOf(i) :
        timers[t].kind = "interaction" /\ timers[t].idx = k

C8_InteractionStartsTarget ==
    \A i \in Instances :
        LET inst == instances[i]
            obj == ScriptObject(inst.scriptId)
        IN \A k \in 1 .. Len(obj.interactions) :
              LET t == InteractionTimer(i, k)
                  target == obj.interactions[k].targetSet
              IN obj.interactions[k].scriptId = NoScript =>
                   /\ timers[t].deadline
                          = inst.startTime + obj.interactions[k].startTime
                   /\ now > timers[t].deadline => ~Pending(t)
                   /\ timers[t].state = "cleared" => inst.ended
                   /\ (timers[t].state = "fired" /\ timers[t].started) =>
                         \/ \E c \in 1 .. Len(calls) :
                               /\ calls[c].setIndex = target
                               /\ calls[c].scriptId = inst.scriptId
                               /\ calls[c].hit
                               /\ now = timers[t].deadline
                         \/ \E j \in Instances :
                               /\ instances[j].setIndex = target
                               /\ instances[j].scriptId = inst.scriptId
                               /\ instances[j].startTime = timers[t].deadline

C8_Witness ==
    /\ ops = 1
    /\ \E j \in Instances :
          /\ instances[1].setIndex = 0
          /\ instances[1].scriptId = "sync_blink"
          /\ instances[j].setIndex = 1
          /\ instances[j].scriptId = "sync_blink"
          /\ instances[j].startTime = instances[1].startTime + 1

\* C9 as stated: three cycleBehavior calls on an autonomous eye-set with no
\* default script return it to autonomous.
OnlyCycled(s, n) ==
    ops = n /\ cycles[s] = n /\ defaultScripts[s] = NoScript

C9_ThreeCyclesReturn ==
    \A s \in Sets : OnlyCycled(s, 3) => eyeSets[s].behavior = AUTONOMOUS

\* C9 as amended: two cycleBehavior calls on an autonomous eye-set with no
\* default script return it to autonomous, and a third moves it to tracking.
C9_TwoCyclesReturn ==
    \A s \in Sets :
        /\ OnlyCycled(s, 1) => eyeSets[s].behavior = TRACKING
        /\ OnlyCycled(s, 2) => eyeSets[s].behavior = AUTONOMOUS
        /\ OnlyCycled(s, 3) => eyeSets[s].behavior = TRACKING

C9_Witness ==
    \E s \in Sets : OnlyCycled(s, 3) /\ eyeSets[s].behavior = TRACKING

\* C10: no step leaves an eye-set scripted with no currentScript, and a
\* cycleBehavior from tracking with no default script lands on autonomous.
C10_NoEmptyScripted ==
    [][/\ \A s \in Sets :
             eyeSets'[s].behavior = SCRIPTED => eyeSets'[s].currentScript # 0
       /\ \A s \in Sets :
             (/\ CycleBehavior(s)
              /\ eyeSets[s].behavior = TRACKING
              /\ defaultScripts[s] = NoScript)
                 => eyeSets'[s].behavior = AUTONOMOUS
      ]_vars

C10_Witness ==
    \E s \in Sets :
        /\ cycles[s] = 2 /\ ops = 2
        /\ defaultScripts[s] # NoScript
        /\ eyeSets[s].behavior = SCRIPTED
        /\ eyeSets[s].currentScript # 0

\* C11: after setEyeBehavior(s, b) no script runs on the eye-set, its idle
\* animations run only if b is autonomous and its tracking loop only if b is
\* tracking, whatever the behaviour before.
C11_OnlyNewBehaviourActive ==
    [][\A s \in Sets, b \in {AUTONOMOUS, TRACKING} :
          SetEyeBehavior(s, b) =>
              /\ eyeSets'[s].currentScript = 0
              /\ eyeSets'[s].idle => b = AUTONOMOUS
              /\ eyeSets'[s].trackingOn => b = TRACKING
      ]_vars

\* C12: stopDirector leaves the director disabled with no evaluation timer
\* pending, and while the director stays disabled no evaluation runs and
\* neither an eye-set nor lastScriptTime changes.
EvaluationPending(tm) ==
    \E t \in 1 .. Len(tm) : tm[t].kind = "evaluation" /\ tm[t].state = "pending"

C12_StoppedStaysQuiet ==
    [][/\ StopDirector =>
             (~directorState'.enabled /\ ~EvaluationPending(timers'))
       /\ ~directorState.enabled =>
             (~EvaluationPending(timers) /\ directorState.evaluationTimeoutId = 0)
       /\ (~directorState.enabled /\ ~directorState'.enabled) =>
             /\ directorLog' = directorLog
             /\ directorState'.lastScriptTime = directorState.lastScriptTime
             /\ eyeSets' = eyeSets
      ]_vars

C12_Witness ==
    /\ ~directorState.enabled
    /\ ops = 2
    /\ \E t \in Timers :
          /\ timers[t].kind = "evaluation"
          /\ timers[t].state = "cleared"
          /\ now > timers[t].deadline

\* C13: while the director is enabled, an evaluation that has run is
\* followed by another one, whatever its outcome, unless stopDirector
\* intervenes (as far as the horizon of the clock lets the next one be seen).
Evaluated(n) ==
    /\ directorState.enabled
    /\ directorLog.evals = n
    /\ now + directorState.evaluationInterval + 1 <= limits.time

C13_EvaluationsRecur ==
    \A n \in 0 .. 2 :
        Evaluated(n) ~> (directorLog.evals > n \/ ~directorState.enabled)

C13_Witness ==
    /\ directorState.enabled
    /\ directorLog.evals = 2
    /\ VisibleSets(eyeSets) = <<>>

\* C14: two executeScript calls made by the director are at least
\* scriptCooldown apart.
C14_GlobalCooldown ==
    \A i \in 1 .. Len(directorLog.triggered),
       j \in 1 .. Len(directorLog.triggered) :
        i < j => directorLog.triggered[j].at - directorLog.triggered[i].at
                     >= directorLog.triggered[j].cooldown

\* C15 as stated: an evaluation touches an eye-set only if it is visible, has
\* no currentScript and changed behaviour more than 3000 ms ago.
Touched(s) ==
    \/ eyeSets'[s] # eyeSets[s]
    \/ \E k \in (Len(directorLog.triggered) + 1) .. Len(directorLog'.triggered) :
          directorLog'.triggered[k].setIndex = s

EvaluationRuns == directorLog'.evals = directorLog.evals + 1

C15_TouchesAfterDebounce ==
    [][EvaluationRuns =>
          \A s \in Sets :
              Touched(s) =>
                  /\ eyeSets[s].visible
                  /\ eyeSets[s].currentScript = 0
                  /\ now - eyeSets[s].lastBehaviorChange > Debounce
      ]_vars

\* C15 as amended: an evaluation touches an eye-set only if it is visible,
\* has no currentScript and changed behaviour at least 3000 ms ago.
C15_TouchesFromDebounce ==
    [][EvaluationRuns =>
          \A s \in Sets :
              Touched(s) =>
                  /\ eyeSets[s].visible
                  /\ eyeSets[s].currentScript = 0
                  /\ now - eyeSets[s].lastBehaviorChange >= Debounce
      ]_vars

C15_Witness ==
    /\ directorLog.evals = 2
    /\ \E s \in Sets :
          /\ eyeSets[s].behavior = TRACKING
          /\ eyeSets[s].lastBehaviorChange = now

\* C16: lastScriptTime changes only in an evaluation that calls
\* executeScript.
C16_StampOnlyOnCall ==
    [][directorState'.lastScriptTime # directorState.lastScriptTime =>
          Len(directorLog'.triggered) > Len(directorLog.triggered)
      ]_vars

\* C17: a script the director starts is in the cache when it is chosen and
\* is on the preference list in use, the multi-eye list being used only with
\* more than one eye-set visible; with no listed script in the cache the
\* director starts none.
Range(seq) == {seq[k] : k \in 1 .. Len(seq)}

Preferences(list) == Range(directorConfig.conditions[list].scriptPreferences)

C17_ChosenIsLoadedAndListed ==
    [][/\ \A k \in (Len(directorLog.triggered) + 1)
                      .. Len(directorLog'.triggered) :
             LET e == directorLog'.triggered[k]
             IN /\ InCache(loadedScripts, e.scriptId)
                /\ e.scriptId \in Preferences(e.list)
                /\ e.list = "multipleEyesVisible" =>
                      Len(VisibleSets(eyeSets)) > 1
                /\ Len(VisibleSets(eyeSets)) <= 1 =>
                      e.scriptId \in Preferences("singleEyeVisible")
       /\ (\A id \in Preferences("multipleEyesVisible")
                       \cup Preferences("singleEyeVisible") :
                ~InCache(loadedScripts, id))
             => directorLog'.triggered = directorLog.triggered
      ]_vars

C17_Witness ==
    /\ \E k \in 1 .. Len(directorLog.triggered) :
          /\ directorLog.triggered[k].list = "multipleEyesVisible"
          /\ directorLog.triggered[k].scriptId = "sync_blink"
    /\ \E k \in 1 .. Len(directorLog.triggered) :
          /\ directorLog.triggered[k].list = "singleEyeVisible"
          /\ directorLog.triggered[k].scriptId = "surprise"

\* C18: in weightedRandomScriptChoice a listed script that is in the cache
\* is eligible whether or not the weight table names it, with weight 1.0
\* when it does not.
Listed(scriptIds, ld) == SelectSeq(scriptIds, LAMBDA id : InCache(ld, id))

C18_UnweightedIsEligible ==
    probe.fn = "weightedRandomScriptChoice" =>
        LET eligible == Listed(probe.scriptIds, probe.ld)
        IN probe.result =
              IF eligible = <<>> THEN NoScript
              ELSE WalkScripts(probe.scriptWeights, eligible, 1,
                               probe.u * TotalWeight(probe.scriptWeights,
                                                     eligible))

\* C19: the interval, the cooldown and the probabilities of the director are
\* those the configuration gives for its current mode.
C19_TupleMatchesMode ==
    directorState.mode \in DOMAIN directorConfig.modes =>
        LET modeConfig == directorConfig.modes[directorState.mode]
        IN /\ directorState.evaluationInterval = modeConfig.evaluationInterval
           /\ directorState.scriptCooldown = modeConfig.scriptCooldown
           /\ directorState.triggerProbabilities
                  = modeConfig.triggerProbabilities

\* C20: weightedRandomChoice returns the first key whose cumulative
\* probability exceeds the draw, and the first key when none does; under the
\* active table that is autonomous below 0.5, tracking from 0.5 and below
\* 0.7, scripted from 0.7.
RECURSIVE Cumulative(_, _)
Cumulative(weights, k) ==
    IF k = 0 THEN 0 ELSE Cumulative(weights, k - 1) + weights[k].p

C20_FirstKeyExceedingDraw ==
    probe.fn = "weightedRandomChoice" =>
        LET hits == {k \in 1 .. Len(probe.weights) :
                        Cumulative(probe.weights, k) > probe.rand}
        IN /\ hits = {} => probe.result = probe.weights[1].key
           /\ hits # {} =>
                 \E k \in hits :
                     /\ \A h \in hits : k <= h
                     /\ probe.result = probe.weights[k].key
           /\ probe.weights = directorConfig.modes.active.triggerProbabilities =>
                 /\ probe.rand < 5 => probe.result = AUTONOMOUS
                 /\ (5 <= probe.rand /\ probe.rand < 7) =>
                       probe.result = TRACKING
                 /\ 7 <= probe.rand => probe.result = SCRIPTED

C20_Witness ==
    /\ probe.fn = "weightedRandomChoice"
    /\ probe.weights = Table(3, 2, 0)
    /\ probe.rand = 5
    /\ probe.result = AUTONOMOUS

\* The loadScript calls that returned a definition, and the definition.
Loads == 1 .. Len(store.loads)
Gave(l) == store.loads[l].state = "returned" /\ store.loads[l].ok
Input(l) == Definitions[store.loads[l].def]
Output(l) == PreparedScript(Input(l))
Position(seq, e) == CHOOSE k \in 1 .. Len(seq) : seq[k] = e

\* C21: the timeline of every definition loadScript returns is in ascending
\* order of time whatever the order in the file, and entries of one time
\* keep the order they had in the file.
C21_SortedAndStable ==
    \A l \in Loads :
        Gave(l) =>
            LET raw == Input(l).timeline
                tl == Output(l).timeline
            IN /\ Len(tl) = Len(raw)
               /\ \A k \in 1 .. Len(raw) : \E j \in 1 .. Len(tl) : tl[j] = raw[k]
               /\ \A i \in 1 .. Len(tl), j \in 1 .. Len(tl) :
                     i < j => tl[i].time <= tl[j].time
               /\ \A i \in 1 .. Len(raw), j \in 1 .. Len(raw) :
                     (i < j /\ raw[i].time = raw[j].time) =>
                         Position(tl, raw[i]) < Position(tl, raw[j])

C21_Witness ==
    \E l \in Loads :
        /\ Gave(l)
        /\ \E i \in 1 .. Len(Input(l).timeline), j \in 1 .. Len(Input(l).timeline) :
              /\ i < j
              /\ Input(l).timeline[i].time > Input(l).timeline[j].time
        /\ \E i \in 1 .. Len(Input(l).timeline), j \in 1 .. Len(Input(l).timeline) :
              /\ i < j
              /\ Input(l).timeline[i].time = Input(l).timeline[j].time

\* The duration the last entry of the sorted timeline gives.
FromLastEntry(l) ==
    LET tl == Output(l).timeline
    IN tl[Len(tl)].time + tl[Len(tl)].pdur

C23_AcceptsOnlyWellFormed ==
    \A l \in Loads :
        Gave(l) =>
            /\ Input(l).scriptId # NoScript
            /\ Input(l).name # ""
            /\ Input(l).timelineIsArray
            /\ Input(l).timeline # <<>>
            /\ \A k \in 1 .. Len(Input(l).timeline) :
                  /\ Input(l).timeline[k].timeIsNumber
                  /\ Input(l).timeline[k].time >= 0
                  /\ Input(l).timeline[k].action # ""

\* C24: a loadScript call that fails returns no definition and leaves the
\* cache as it was, and a call for an identifier that is not in the cache
\* asks the server again.
C24_FailureCachesNothing ==
    [][/\ \A l \in Loads :
             (FetchSettles(l) /\ ~store'.loads[l].ok) =>
                 /\ store'.loads[l].state = "returned"
                 /\ store'.cache = store.cache
       /\ \A id \in StoreIds :
             (LoadScript(id) /\ ~StoreHas(store.cache, id)) =>
                 /\ store'.loads[Len(store'.loads)].state = "fetching"
                 /\ store'.cache = store.cache
      ]_vars

C24_Witness ==
    \E l \in Loads, m \in Loads :
        /\ l < m
        /\ store.loads[l].scriptId = store.loads[m].scriptId
        /\ store.loads[l].state = "returned" /\ ~store.loads[l].ok
        /\ store.loads[l].def # 0
        /\ Gave(m) /\ store.loads[m].fetched

\* C27: an entry of the cache is never replaced or removed, and a loadScript
\* call made for an identifier that has one returns that object without a
\* fetch, also when loadScript calls for one identifier overlap.
C27_EntriesNeverReplaced ==
    [][/\ \A k \in 1 .. Len(store.cache) :
             /\ k <= Len(store'.cache)
             /\ store'.cache[k] = store.cache[k]
       /\ \A id \in StoreIds :
             (LoadScript(id) /\ StoreHas(store.cache, id)) =>
                 LET load == store'.loads[Len(store'.loads)]
                 IN /\ ~load.fetched
                    /\ load.by = StoreGet(store.cache, id).by
      ]_vars

\* C25: a timeline entry whose action the registry does not hold is skipped
\* and changes nothing; the other entries of the script are invoked at
\* their times, and the script completes at its duration.
RunsThrough(i) ==
    LET inst == instances[i]
        obj == ScriptObject(inst.scriptId)
        n == Len(inst.invoked)
    IN /\ n <= Len(obj.timeline)
       /\ \A k \in 1 .. n :
             /\ inst.invoked[k].idx = k
             /\ inst.invoked[k].at = inst.startTime + obj.timeline[k].time
             /\ inst.invoked[k].handled
                   = (obj.timeline[k].action \in actionRegistry)
       /\ \A k \in 1 .. Len(obj.timeline) :
             now > inst.startTime + obj.timeline[k].time => n >= k
       /\ now > inst.startTime + obj.duration => inst.ended
       /\ inst.ended =>
             /\ n = Len(obj.timeline)
             /\ inst.endedBy \in Timers
             /\ timers[inst.endedBy].inst = i
             /\ timers[inst.endedBy].deadline = inst.startTime + obj.duration

Undisturbed(i) ==
    /\ Alone(i)
    /\ ~Stopped(i)
    /\ eyeSets[instances[i].setIndex].visible

C25_UnknownActionSkipped ==
    \A i \in Instances :
        (instances[i].scriptId = "glitch" /\ Undisturbed(i)) =>
            /\ RunsThrough(i)
            /\ ~instances[i].ended =>
                  /\ instances[i].isRunning
                  /\ eyeSets[instances[i].setIndex].behavior = SCRIPTED
                  /\ eyeSets[instances[i].setIndex].currentScript = i
                  /\ \A t \in TimersOf(i) : timers[t].state # "cleared"

C25_Witness ==
    \E i \in Instances :
        /\ instances[i].scriptId = "glitch" /\ Undisturbed(i)
        /\ instances[i].ended
        /\ Len(instances[i].invoked) = 3
        /\ ~instances[i].invoked[2].handled
        /\ instances[i].invoked[3].handled

\* C30: the callback of a timeline timer that fires for an eye-set that is
\* not visible calls no handler and changes nothing.
C30_NoHandlerWhenHidden ==
    [][\A t \in Timers :
          (/\ ~eyeSets[timers[t].set].visible
           /\ timers[t].kind = "action"
           /\ FireAction(t)) =>
              LET inst == instances'[timers[t].inst]
              IN /\ ~inst.invoked[Len(inst.invoked)].handled
                 /\ eyeSets' = eyeSets
      ]_vars

C30_Witness ==
    \E i \in Instances :
        /\ Len(instances[i].invoked) = 2
        /\ instances[i].invoked[1].handled
        /\ ~instances[i].invoked[2].handled
        /\ instances[i].invoked[2].action \in actionRegistry

\* C26: cycleScript(s) calls executeScript for the identifier that follows,
\* in the insertion order of the cache, the identifier of the script running
\* on the eye-set, the first following the last; for the first identifier
\* when no script runs on the eye-set; and does nothing when the cache is
\* empty.
Follower(ids, id) ==
    LET p == CHOOSE k \in 1 .. Len(ids) : ids[k] = id
    IN IF p = Len(ids) THEN ids[1] ELSE ids[p + 1]

C26_CycleStartsFollower ==
    [][\A s \in SetIdx :
          CycleScript(s) =>
              IF ~Exists(s) \/ loadedScripts = <<>>
              THEN UNCHANGED <<Frame, calls, returns>>
              ELSE LET running == eyeSets[s].currentScript
                       expected ==
                           IF running = 0 THEN loadedScripts[1]
                           ELSE Follower(loadedScripts,
                                         instances[running].scriptId)
                   IN IF eyeSets[s].visible
                      THEN calls' = Append(calls, [setIndex |-> s,
                                                   scriptId |-> expected,
                                                   hit |-> TRUE])
                      ELSE calls' = calls
      ]_vars

C26_Witness ==
    /\ Len(loadedScripts) = 2
    /\ \E i \in Instances, j \in Instances, k \in Instances :
          /\ i < j /\ j < k
          /\ instances[i].setIndex = 0 /\ instances[j].setIndex = 0
          /\ instances[k].setIndex = 0
          /\ instances[i].scriptId = loadedScripts[1]
          /\ instances[j].scriptId = loadedScripts[2]
          /\ instances[k].scriptId = loadedScripts[1]
          /\ instances[j].startTime < instances[k].startTime

\* C28: when stopScript or a completion timer completes the script of
\* eye-set p, no other eye-set changes, every other script instance keeps
\* its state and its timers, the interaction timers of the completed script
\* that have not fired are cancelled, and a cancelled timer never fires.
Completes(p, t) ==
    /\ eyeSets[p].currentScript # 0
    /\ eyeSets'[p].currentScript = 0
    /\ \/ t = 0 /\ StopScript(p)
       \/ /\ t \in Timers
          /\ timers[t].set = p /\ timers[t].kind = "completion"
          /\ FireCompletion(t)

C28_CompletionIsLocal ==
    [][/\ \A p \in Sets, t \in 0 .. Len(timers) :
             Completes(p, t) =>
                 LET i == eyeSets[p].currentScript
                 IN /\ \A q \in Sets \ {p} :
                          /\ eyeSets'[q] = eyeSets[q]
                          /\ scriptInstances'[q] = scriptInstances[q]
                    /\ \A j \in Instances \ {i} : instances'[j] = instances[j]
                    /\ \A u \in Timers \ {t} :
                          timers[u].inst # i => timers'[u] = timers[u]
                    /\ \A u \in TimersOf(i) :
                          (timers[u].kind = "interaction" /\ Pending(u)) =>
                              timers'[u].state = "cleared"
       /\ \A u \in Timers :
             timers[u].state = "cleared" => timers'[u] = timers[u]
      ]_vars

C28_Witness ==
    \E i \in Instances, j \in Instances :
        /\ instances[i].setIndex = 0 /\ Stopped(i)
        /\ instances[j].setIndex = 1 /\ instances[j].isRunning
        /\ eyeSets[1].currentScript = j
        /\ \E u \in TimersOf(i) :
              timers[u].kind = "interaction" /\ timers[u].started
        /\ \E u \in TimersOf(i) :
              /\ timers[u].kind = "interaction"
              /\ timers[u].state = "cleared"
              /\ timers[u].deadline <= now
        /\ \E u \in TimersOf(j) : Pending(u)

\* C29: a script instance started by an interaction schedules no
\* interactions of its own, so that one executeScript call starts at most
\* one script instance more than the script has interactions.
C29_InteractionsDoNotChain ==
    instances # <<>> =>
        Len(instances)
            <= 1 + Len(ScriptObject(instances[1].scriptId).interactions)

\* C31: a script instance becomes the currentScript of an eye-set only when
\* that eye-set is visible, also when the visibility changed while
\* executeScript was waiting for the script to load.
C31_RegisteredOnlyWhenVisible ==
    [][\A s \in Sets :
          (/\ eyeSets'[s].currentScript # 0
           /\ eyeSets'[s].currentScript # eyeSets[s].currentScript)
              => eyeSets[s].visible /\ eyeSets'[s].visible
      ]_vars

\* C32: an instance of a script whose duration loadScript derived, left
\* alone on its eye-set, has had every timeline action invoked when its
\* completion timer completes it, the last action being invoked at the very
\* time of the completion.
Derived(id) == ~ScriptFile(id).hasDuration \/ ScriptFile(id).duration = 0

C32_ActionsBeforeCompletion ==
    \A i \in Instances :
        LET inst == instances[i]
            obj == ScriptObject(inst.scriptId)
        IN (Derived(inst.scriptId) /\ Alone(i) /\ inst.ended /\ ~Stopped(i)) =>
              /\ timers[inst.endedBy].inst = i
              /\ timers[inst.endedBy].kind = "completion"
              /\ Len(inst.invoked) = Len(obj.timeline)
              /\ \A k \in 1 .. Len(obj.timeline) : inst.invoked[k].idx = k
              /\ \A t \in TimersOf(i) :
                    timers[t].kind = "action" => timers[t].state = "fired"

C32_Witness ==
    \E i \in Instances :
        /\ Derived(instances[i].scriptId) /\ Alone(i)
        /\ instances[i].ended /\ ~Stopped(i)
        /\ instances[i].invoked[Len(instances[i].invoked)].at
               = timers[instances[i].endedBy].deadline
        /\ now = timers[instances[i].endedBy].deadline

\* C33: at most one evaluation timer of the director is pending, and none
\* while the director is disabled.
PendingEvaluations ==
    {t \in Timers : timers[t].kind = "evaluation" /\ Pending(t)}

C33_OneEvaluationTimer ==
    /\ Cardinality(PendingEvaluations) <= 1
    /\ ~directorState.enabled => PendingEvaluations = {}
    /\ directorState.enabled =>
          PendingEvaluations = {directorState.evaluationTimeoutId}

C33_Witness ==
    /\ directorState.enabled
    /\ Cardinality(PendingEvaluations) = 1
    /\ \E t \in Timers :
          timers[t].kind = "evaluation" /\ timers[t].state = "fired"
    /\ \E t \in Timers :
          timers[t].kind = "evaluation" /\ timers[t].state = "cleared"

\* C34: scriptInstances holds an entry for an eye-set exactly when the
\* eye-set has a currentScript, and the entry is that instance.
C34_RegistryMatchesCurrent ==
    \A s \in Sets : scriptInstances[s] = eyeSets[s].currentScript

C34_Witness ==
    \E s \in Sets, q \in Sets :
        /\ scriptInstances[s] # 0
        /\ scriptInstances[q] = 0
        /\ \E i \in Instances : instances[i].setIndex = q /\ instances[i].ended

\* C35: an eye-set that has a currentScript has the behaviour scripted, and
\* that instance is running.
C35_CurrentScriptIsScripted ==
    \A s \in Sets :
        eyeSets[s].currentScript # 0 =>
            /\ eyeSets[s].behavior = SCRIPTED
            /\ instances[eyeSets[s].currentScript].isRunning

C35_Witness ==
    \E s \in Sets, q \in Sets :
        /\ eyeSets[s].currentScript # 0
        /\ \E i \in Instances : instances[i].setIndex = q /\ Stopped(i)
        /\ eyeSets[q].behavior = TRACKING

\* C36: leaving test mode right after entering it, nothing done in between,
\* leaves the director enabled exactly if it was before, every eye-set that
\* was autonomous or tracking in that behaviour with its loop running, and
\* every eye-set that was scripted autonomous with its idle loop running.
C36_ExitRestores ==
    [][(testMode.isActive /\ ~testMode'.isActive
           /\ ops = testMode.enteredAt) =>
          /\ directorState'.enabled = testMode.originalState.directorEnabled
          /\ \A s \in Sets :
                LET was == testMode.originalState.eyeSetStates[s + 1].behavior
                IN /\ was = AUTONOMOUS =>
                         eyeSets'[s].behavior = AUTONOMOUS /\ eyeSets'[s].idle
                   /\ was = TRACKING =>
                         /\ eyeSets'[s].behavior = TRACKING
                         /\ eyeSets'[s].trackingOn
                   /\ was = SCRIPTED =>
                         eyeSets'[s].behavior = AUTONOMOUS /\ eyeSets'[s].idle
      ]_vars

\* C37: test mode is active exactly when its overlay is visible.
C37_ActiveIffVisible == testMode.isActive <=> testMode.visible

\* C38: the debug panel has at most one update interval active, and none
\* while it is hidden.
ActiveIntervals ==
    {h \in 1 .. Len(debugPanel.intervals) : debugPanel.intervals[h].active}

C38_OneUpdateInterval ==
    /\ Cardinality(ActiveIntervals) <= 1
    /\ ~debugPanel.visible => ActiveIntervals = {}

\* C39: after cycleNotificationPreset the settings are one of the four
\* presets, the value returned is the preset getNotificationPreset reports
\* and the successor modulo 4 of the preset reported before the call, and the
\* fourth call in a row from a preset restores the settings of that preset.
Canonical ==
    {Flags(FALSE, FALSE, FALSE), Flags(TRUE, FALSE, FALSE),
     Flags(TRUE, TRUE, FALSE), Flags(TRUE, TRUE, TRUE)}

C39_CycleThroughPresets ==
    LET n == Len(toast.run)
    IN n > 0 =>
          /\ toast.settings \in Canonical
          /\ toast.saved = toast.settings
          /\ toast.returned = getNotificationPreset(toast.settings)
          /\ toast.returned = (getNotificationPreset(toast.run[n]) + 1) % 4
          /\ (n >= 4 /\ toast.run[n - 3] \in Canonical) =>
                toast.settings = toast.run[n - 3]

C39_Witness ==
    /\ Len(toast.run) = 5
    /\ toast.run[1] \notin Canonical
    /\ toast.run[2] \in Canonical
    /\ toast.settings = toast.run[2]

====
